---- MODULE Spec2Model ----
(***************************************************************************)
(* Wallet-provisioning pipeline: the wallet service (Kafka consumer, event *)
(* handler, create_wallet, derivation-index allocator, in-memory cache,    *)
(* wallets table, wallet.created publisher) and the verification service   *)
(* (verify_user, verifications table, user.verified publisher).            *)
(*                                                                         *)
(* Every coroutine is cut at its suspension points (database round trips,  *)
(* executor off-loads, contended lock acquisition, sleeps).  One action is *)
(* the code that runs between two suspension points; the effect of the     *)
(* awaited I/O is placed at the start of the continuation.  Acquiring a    *)
(* free asyncio lock or semaphore and the in-memory cache calls do not     *)
(* suspend, so they are part of the surrounding step.                      *)
(***************************************************************************)
EXTENDS Integers, Sequences, FiniteSets, TLC

None == "None"

\* ------------------------------------------------------------- bounds
\* records the consumer may fetch from the user.verified topic
MaxRecords == 2
\* batch_processing_size used by the model (a configuration option)
MaxBatch == 2
\* the wall clock stops advancing here
MaxTime == 3601
\* failures injected into create_wallet (generator, database) in one run
MaxFaults == 1
\* verify_user calls in one run
MaxCalls == 3
\* the verification service's clock stops advancing here
MaxVerificationTime == 6
\* storage failures injected into verify_user in one run
MaxStorageFaults == 1
\* settings.max_concurrent_verifications, scaled so that MaxCalls exceeds it
MaxPermits == 2
\* clock steps of the cache exercised on its own
MaxCacheTicks == 3
\* the largest settings.max_document_size_mb tried
MaxLimitMb == 32
\* generate calls made on the generators exercised on their own
MaxGenerateCalls == 4
\* get_wallet calls in one run
MaxReaders == 2
\* concurrent callers of a KafkaEventPublisher
MaxPublishers == 2
\* publish and publish_batch calls made on it in one run
MaxPublishCalls == 3
\* the longest list handed to publish_batch
MaxEvents == 2

\* ------------------------------------------------- program constants
cache_ttl_seconds == 3600
max_concurrent_generations == 50
ProcessedLimit == 10000
ProcessedKeep == 5000
CommitAttempts == 3
PublishAttempts == 3
cache_key_prefix == "wallet:"
max_document_size_mb == 10
verification_delay_seconds == 3

\* ------------------------------------------------------------- inputs
Users == {"u1", "u2"}
RawNetworks == {"ethereum", "ETHEREUM"}
Timestamps == {1, 2}
\* user.verified records on the topic: a repeated event, the same user and
\* network with another timestamp, another user, another spelling of the network
Events ==
  {[user_id |-> "u1", network |-> "ethereum", timestamp |-> 1],
   [user_id |-> "u1", network |-> "ethereum", timestamp |-> 2],
   [user_id |-> "u2", network |-> "ethereum", timestamp |-> 1],
   [user_id |-> "u2", network |-> "ETHEREUM", timestamp |-> 1]}
Tasks == 1..MaxRecords

\* verify_user inputs: the network as the caller passes it, the decoded
\* document by its length in bytes
Calls == 1..MaxCalls
VerificationNetworks == {"ethereum", "solana"}
DocumentSizes ==
  {max_document_size_mb * 1024 * 1024, max_document_size_mb * 1024 * 1024 + 1}

\* get_wallet callers, and the ids of the rows they may find
Readers == 1..MaxReaders
Publishers == 1..MaxPublishers
PublisherServices == {"wallet", "verification"}
StoredIds == {1, 2, 3}

\* generate inputs
GeneratorNetworks == {"ethereum", "bitcoin"}
Mnemonics == {"mnemonic1", "mnemonic2"}
GeneratorIndexes == {0, 1}

\* str.lower() on the network names the model feeds in
Lower(s) ==
  CASE s = "ETHEREUM" -> "ethereum"
    [] s = "TRON" -> "tron"
    [] s = "BITCOIN" -> "bitcoin"
    [] OTHER -> s

\* NetworkType(value): the enum lookup is by value and case-sensitive
NetworkTypeValues == {"ethereum", "tron", "bitcoin"}

base_derivation_path(network) ==
  CASE network = "ethereum" -> "m/44'/60'/0'/0"
    [] network = "tron" -> "m/44'/195'/0'/0"
    [] OTHER -> "m/44'/0'/0'/0"

\* f"{base_derivation_path}/{index}"
get_derivation_path(network, index) == <<base_derivation_path(network), index>>

\* passphrase "wallet-service:" + user_id; the seed is a function of it
derive_seed(user_id) == <<"wallet-service:", user_id>>

\* the address is a digest of seed + path: collision-free in the model
generate_address(network, user_id, index) ==
  <<derive_seed(user_id), get_derivation_path(network, index)>>

VARIABLES
  \* wallet service
  wallets,        \* rows of the wallets table
  store,          \* CacheService._store: full_key -> <<expiry, value>>
  now,            \* time.time(), whole seconds
  index_locks,    \* DerivationService._index_locks: network -> holding task, 0 when free
  processed,      \* EventHandler._processed_events
  task,           \* per-record tasks (_process_message -> handle_user_verified)
  pub,            \* _publish_wallet_created tasks, one per create_wallet call
  published,      \* wallet.created events acknowledged by the broker
  allocated,      \* history: indices returned by get_next_index, per network
  \* consumer
  cpc,            \* position of _consume_loop
  running,        \* KafkaEventConsumer._running
  position,       \* records fetched so far (the consumer's fetch position)
  committed,      \* last committed offset
  batch,          \* tasks of the batch being gathered
  commit_attempt, \* attempt counter of _commit_offsets
  batches,        \* history: one entry per gathered batch
  faults,         \* failures injected so far
  \* verification service
  verifications,  \* rows of the verifications table
  call,           \* verify_user calls, one request and one session each
  vnow,           \* datetime.now() of the verification service, seconds
  vpub,           \* _publish_event tasks, one per verify_user call
  vpublished,     \* user.verified events acknowledged by the broker
  storage_faults, \* storage failures injected so far
  response,       \* per call, the HTTP response of POST /verify
  \* components exercised on their own
  cstore,         \* a CacheService._store
  cnow,           \* its time.time(), whole seconds
  cticks,         \* clock steps taken
  cset,           \* history: the last set of each key, <<>> once deleted
  cop,            \* history: the last cache operation and what it returned
  dlimit,         \* settings.max_document_size_mb of a service under test
  dcheck,         \* history: the last document it was given and the outcome
  path_cache,     \* per generator, its _path_cache: index -> path
  generated,      \* history: every generate call with what it returned
  gcalls,         \* generate calls made
  rejected,       \* the addresses a generator's validate_address refuses
  reads,          \* per caller of get_wallet, where the call stands
  last_accessed,  \* wallets.last_accessed_at by row id, -1 for NULL
  touches,        \* update_last_accessed tasks created by get_wallet
  publisher_of,   \* which service's KafkaEventPublisher is exercised
  producer,       \* KafkaEventPublisher._producer: 0 for None, else an instance
  instances,      \* history: the AIOKafkaProducer instances constructed
  producer_lock,  \* KafkaEventPublisher._lock: holding caller, 0 when free
  publisher,      \* per caller, where its publish/publish_batch call stands
  sends,          \* history: producer and its state at each send issued
  kcalls          \* publisher calls made

wvars == <<wallets, store, now, index_locks, processed, task, pub, published,
           allocated, cpc, running, position, committed, batch,
           commit_attempt, batches, faults>>

vvars == <<verifications, call, vnow, vpub, vpublished, storage_faults,
           response>>

cvars == <<cstore, cnow, cticks, cset, cop>>

dvars == <<dlimit, dcheck>>

gvars == <<path_cache, generated, gcalls, rejected>>

rvars == <<reads, last_accessed, touches>>

kvars == <<publisher_of, producer, instances, producer_lock, publisher,
           sends, kcalls>>

pvars == <<cvars, dvars, gvars, rvars, kvars>>

vars == <<wvars, vvars, pvars>>

\* ------------------------------------------------------------- cache
prefixed(key) == <<cache_key_prefix>> \o key

wallet_cache_key(user_id, network) == <<"wallet", user_id, network>>
index_cache_key(network) == <<"next_index", network>>

\* a get with the expiry comparison the wrong way round
cache_get_reversed(st, key, t) ==
  LET full_key == prefixed(key) IN
  IF full_key \notin DOMAIN st THEN <<>>
  ELSE LET expiry == st[full_key][1]
           value == st[full_key][2] IN
       IF expiry /= 0 /\ expiry > t THEN <<>> ELSE <<value>>

\* CacheService.get: the value returned, <<>> for None and <<value>> otherwise
cache_get(st, key, t) ==
  LET full_key == prefixed(key) IN
  IF full_key \notin DOMAIN st THEN <<>>
  ELSE LET expiry == st[full_key][1]
           value == st[full_key][2] IN
       IF expiry /= 0 /\ expiry < t THEN <<>> ELSE <<value>>

\* CacheService.get: the store it leaves (lazy eviction of an expired entry)
cache_get_store(st, key, t) ==
  LET full_key == prefixed(key) IN
  IF full_key \in DOMAIN st /\ st[full_key][1] /= 0 /\ st[full_key][1] < t
  THEN [k \in DOMAIN st \ {full_key} |-> st[k]]
  ELSE st

\* CacheService.set; the ttl argument is <<>> for None and <<n>> otherwise,
\* and `ttl or cache_ttl_seconds` takes the default for None and for 0
cache_set_ttl(st, key, value, ttl_arg, t) ==
  LET ttl == IF ttl_arg /= <<>> /\ ttl_arg[1] /= 0
             THEN ttl_arg[1] ELSE cache_ttl_seconds
      expiry == IF ttl /= 0 THEN t + ttl ELSE 0
      full_key == prefixed(key) IN
  [k \in DOMAIN st \cup {full_key} |->
     IF k = full_key THEN <<expiry, value>> ELSE st[k]]

\* CacheService.set with the default ttl
cache_set(st, key, value, t) == cache_set_ttl(st, key, value, <<>>, t)

\* CacheService.delete
cache_delete(st, key) == [k \in DOMAIN st \ {prefixed(key)} |-> st[k]]

\* -------------------------------------------------------- repository
\* WalletRepository.get_by_user_and_network: the rows the select matches
rows_by_user_and_network(user_id, network) ==
  {w \in wallets : w.user_id = user_id /\ w.network = network}

\* a query that returns the largest stored index itself
get_next_derivation_index_max(network) ==
  LET idx == {w.derivation_index : w \in {x \in wallets : x.network = network}} IN
  IF idx = {} THEN 0
  ELSE CHOOSE m \in idx : \A i \in idx : i <= m

\* WalletRepository.get_next_derivation_index
get_next_derivation_index(network) ==
  LET idx == {w.derivation_index : w \in {x \in wallets : x.network = network}} IN
  IF idx = {} THEN 0
  ELSE (CHOOSE m \in idx : \A i \in idx : i <= m) + 1

\* a wallets table without the unique constraint on wallet_address
violates_unique_never(w) == FALSE

\* the unique constraint of the wallets table (wallet_address)
violates_unique(w) == \E x \in wallets : x.wallet_address = w.wallet_address


\* ------------------------------------------------------ initial state
IdleTask ==
  [pc |-> "idle", offset |-> -1, user_id |-> None, network |-> None,
   timestamp |-> 0, started_without_wallet |-> FALSE, derivation_index |-> -1,
   wallet |-> <<>>, result |-> None, exc |-> None]

NoPublish == [state |-> "none", attempt |-> 0, slept |-> <<>>]

\* processed.others counts the keys of events of users the model does not
\* follow; the set holds at most ProcessedLimit keys between two calls.
InitWalletTable(others, tables) ==
  /\ wallets \in tables
  /\ store = <<>>
  /\ now = 0
  /\ index_locks = [n \in RawNetworks |-> 0]
  /\ processed = [keys |-> {}, others |-> others]
  /\ task = [t \in Tasks |-> IdleTask]
  /\ pub = [t \in Tasks |-> NoPublish]
  /\ published = {}
  /\ allocated = [n \in RawNetworks |-> <<>>]
  /\ cpc = "poll"
  /\ running = TRUE
  /\ position = 0
  /\ committed = 0
  /\ batch = {}
  /\ commit_attempt = 0
  /\ batches = <<>>
  /\ faults = 0

InitWallet(others) == InitWalletTable(others, {{}})

\* ------------------------------------------------------ event handler
event_key(t) == <<task[t].user_id, task[t].network, task[t].timestamp>>

\* len(self._processed_events)
processed_len(p) == Cardinality(p.keys) + p.others

\* set(list(self._processed_events)[-5000:]): a set iterates in hash order,
\* so which ProcessedKeep keys survive is not determined by insertion order
trim(p) ==
  IF processed_len(p) > ProcessedLimit
  THEN {[keys |-> K, others |-> ProcessedKeep - Cardinality(K)] :
          K \in {S \in SUBSET p.keys :
                   /\ Cardinality(S) <= ProcessedKeep
                   /\ ProcessedKeep - Cardinality(S) <= p.others}}
  ELSE {p}

task_done(t, result, wallet) ==
  [task EXCEPT ![t].pc = "done", ![t].result = result, ![t].wallet = wallet]

task_failed(t, exc) ==
  [task EXCEPT ![t].pc = "done", ![t].result = "error", ![t].exc = exc]

\* a handler that re-raises and leaves the key in the set
handler_keep(t) == processed

\* except Exception: discard the key under the lock, then raise
handler_discard(t) == [processed EXCEPT !.keys = @ \ {event_key(t)}]

\* asyncio.Semaphore(max_concurrent_generations): tasks inside create_wallet
in_create_wallet ==
  {t \in Tasks : task[t].pc \in {"lookup", "wait_lock", "seed_index",
                                   "generate", "insert"}}

\* history: no row of the pair exists when create_wallet is entered
no_wallet(t) ==
  ~\E w \in wallets : w.user_id = task[t].user_id /\ w.network = Lower(task[t].network)

\* a handler that forgets the key of an event it skips as a duplicate
handle_user_verified_forget(t) ==
  /\ task[t].pc = "start"
  /\ LET key == event_key(t)
         cache_key == wallet_cache_key(task[t].user_id, task[t].network)
         cached_wallet == cache_get(store, cache_key, now) IN
     IF key \in processed.keys
     THEN /\ task' = task_done(t, "duplicate", <<>>)
          /\ processed' = [processed EXCEPT !.keys = @ \ {key}]
          /\ store' = store
     ELSE /\ Cardinality(in_create_wallet) < max_concurrent_generations
          /\ processed' \in trim([processed EXCEPT !.keys = @ \cup {key}])
          /\ IF cached_wallet /= <<>>
             THEN /\ task' = [task_done(t, "cached", cached_wallet) EXCEPT
                                ![t].started_without_wallet = no_wallet(t)]
                  /\ store' = store
             ELSE /\ task' = [task EXCEPT ![t].pc = "lookup",
                                ![t].started_without_wallet = no_wallet(t)]
                  /\ store' = cache_get_store(store, cache_key, now)
  /\ UNCHANGED <<wallets, now, index_locks, pub, published, allocated, cpc,
                 running, position, committed, batch, commit_attempt, batches, faults>>

\* handle_user_verified up to the first suspension of create_wallet:
\* the dedup block, the semaphore, the cache lookup
handle_user_verified(t) ==
  /\ task[t].pc = "start"
  /\ LET key == event_key(t)
         cache_key == wallet_cache_key(task[t].user_id, task[t].network)
         cached_wallet == cache_get(store, cache_key, now) IN
     IF key \in processed.keys
     THEN /\ task' = task_done(t, "duplicate", <<>>)
          /\ UNCHANGED <<processed, store>>
     ELSE /\ Cardinality(in_create_wallet) < max_concurrent_generations
          /\ processed' \in trim([processed EXCEPT !.keys = @ \cup {key}])
          /\ IF cached_wallet /= <<>>
             THEN /\ task' = [task_done(t, "cached", cached_wallet) EXCEPT
                                ![t].started_without_wallet = no_wallet(t)]
                  /\ store' = store
             ELSE /\ task' = [task EXCEPT ![t].pc = "lookup",
                                ![t].started_without_wallet = no_wallet(t)]
                  /\ store' = cache_get_store(store, cache_key, now)
  /\ UNCHANGED <<wallets, now, index_locks, pub, published, allocated, cpc,
                 running, position, committed, batch, commit_attempt, batches, faults>>

\* a get_next_index that writes the cached index back unchanged
get_next_index_locked_no_advance(t) ==
  LET network == task[t].network
      cache_key == index_cache_key(network)
      cached_index == cache_get(store, cache_key, now) IN
  IF cached_index /= <<>>
  THEN /\ store' = cache_set(store, cache_key, cached_index[1], now)
       /\ index_locks' = [index_locks EXCEPT ![network] = 0]
       /\ allocated' = [allocated EXCEPT ![network] = Append(@, cached_index[1])]
       /\ task' = [task EXCEPT ![t].pc = "generate",
                               ![t].derivation_index = cached_index[1]]
  ELSE /\ store' = cache_get_store(store, cache_key, now)
       /\ index_locks' = [index_locks EXCEPT ![network] = t]
       /\ allocated' = allocated
       /\ task' = [task EXCEPT ![t].pc = "seed_index"]

\* ------------------------------------------------ derivation service
\* get_next_index once the per-network lock is in hand, up to its return
\* (cache hit) or to the repository query (cache miss, lock kept)
get_next_index_locked(t) ==
  LET network == task[t].network
      cache_key == index_cache_key(network)
      cached_index == cache_get(store, cache_key, now) IN
  IF cached_index /= <<>>
  THEN /\ store' = cache_set(store, cache_key, cached_index[1] + 1, now)
       /\ index_locks' = [index_locks EXCEPT ![network] = 0]
       /\ allocated' = [allocated EXCEPT ![network] = Append(@, cached_index[1])]
       /\ task' = [task EXCEPT ![t].pc = "generate",
                               ![t].derivation_index = cached_index[1]]
  ELSE /\ store' = cache_get_store(store, cache_key, now)
       /\ index_locks' = [index_locks EXCEPT ![network] = t]
       /\ allocated' = allocated
       /\ task' = [task EXCEPT ![t].pc = "seed_index"]

\* a create_wallet that returns the stored wallet without caching it
create_wallet_lookup_no_cache(t) ==
  /\ task[t].pc = "lookup"
  /\ LET user_id == task[t].user_id
         network == task[t].network
         rows == rows_by_user_and_network(user_id, network) IN
     IF Cardinality(rows) > 1
     THEN \* scalar_one_or_none raises; the lookup is outside the try block
          /\ task' = task_failed(t, "MultipleResultsFound")
          /\ processed' = handler_discard(t)
          /\ UNCHANGED <<store, index_locks, allocated>>
     ELSE IF rows /= {}
     THEN LET existing == CHOOSE w \in rows : TRUE IN
          /\ store' = store
          /\ task' = task_done(t, "existing", <<existing>>)
          /\ UNCHANGED <<processed, index_locks, allocated>>
     ELSE IF Lower(network) \notin NetworkTypeValues
     THEN \* NetworkType(network.lower()) raises ValueError
          /\ task' = task_failed(t, "WalletGenerationException")
          /\ processed' = handler_discard(t)
          /\ UNCHANGED <<store, index_locks, allocated>>
     ELSE IF index_locks[network] /= 0
     THEN /\ task' = [task EXCEPT ![t].pc = "wait_lock"]
          /\ UNCHANGED <<processed, store, index_locks, allocated>>
     ELSE /\ get_next_index_locked(t)
          /\ UNCHANGED processed
  /\ UNCHANGED <<wallets, now, pub, published, cpc, running, position,
                 committed, batch, commit_attempt, batches, faults>>

\* create_wallet resumed after repository.get_by_user_and_network
create_wallet_lookup(t) ==
  /\ task[t].pc = "lookup"
  /\ LET user_id == task[t].user_id
         network == task[t].network
         rows == rows_by_user_and_network(user_id, network) IN
     IF Cardinality(rows) > 1
     THEN \* scalar_one_or_none raises; the lookup is outside the try block
          /\ task' = task_failed(t, "MultipleResultsFound")
          /\ processed' = handler_discard(t)
          /\ UNCHANGED <<store, index_locks, allocated>>
     ELSE IF rows /= {}
     THEN LET existing == CHOOSE w \in rows : TRUE IN
          /\ store' = cache_set(store, wallet_cache_key(user_id, network),
                                existing, now)
          /\ task' = task_done(t, "existing", <<existing>>)
          /\ UNCHANGED <<processed, index_locks, allocated>>
     ELSE IF Lower(network) \notin NetworkTypeValues
     THEN \* NetworkType(network.lower()) raises ValueError
          /\ task' = task_failed(t, "WalletGenerationException")
          /\ processed' = handler_discard(t)
          /\ UNCHANGED <<store, index_locks, allocated>>
     ELSE IF index_locks[network] /= 0
     THEN /\ task' = [task EXCEPT ![t].pc = "wait_lock"]
          /\ UNCHANGED <<processed, store, index_locks, allocated>>
     ELSE /\ get_next_index_locked(t)
          /\ UNCHANGED processed
  /\ UNCHANGED <<wallets, now, pub, published, cpc, running, position,
                 committed, batch, commit_attempt, batches, faults>>

\* get_next_index: a waiter obtains the released lock
get_next_index_acquire(t) ==
  /\ task[t].pc = "wait_lock"
  /\ index_locks[task[t].network] = 0
  /\ get_next_index_locked(t)
  /\ UNCHANGED <<wallets, now, processed, pub, published, cpc, running,
                 position, committed, batch, commit_attempt, batches, faults>>

\* get_next_index resumed after repository.get_next_derivation_index, which
\* returned or raised; the lock is released either way
get_next_index_seed(t, db_ok) ==
  /\ task[t].pc = "seed_index"
  /\ db_ok \/ faults < MaxFaults
  /\ faults' = IF db_ok THEN faults ELSE faults + 1
  /\ LET network == task[t].network
         next_index == get_next_derivation_index(network) IN
     /\ index_locks' = [index_locks EXCEPT ![network] = 0]
     /\ IF db_ok
        THEN /\ store' = cache_set(store, index_cache_key(network),
                                   next_index + 1, now)
             /\ allocated' = [allocated EXCEPT ![network] = Append(@, next_index)]
             /\ task' = [task EXCEPT ![t].pc = "generate",
                                     ![t].derivation_index = next_index]
             /\ UNCHANGED processed
        ELSE /\ task' = task_failed(t, "WalletGenerationException")
             /\ processed' = handler_discard(t)
             /\ UNCHANGED <<store, allocated>>
  /\ UNCHANGED <<wallets, now, pub, published, cpc, running,
                 position, committed, batch, commit_attempt, batches>>


\* ------------------------------------------------- wallet generation
\* _generate_wallet resumed after generator.generate: the Wallet built from
\* the derived address (its id is assigned by the insert)
new_wallet(t) ==
  LET network_type == Lower(task[t].network) IN
  [id |-> 0, user_id |-> task[t].user_id, network |-> network_type,
   wallet_address |-> generate_address(network_type, task[t].user_id,
                                       task[t].derivation_index),
   derivation_index |-> task[t].derivation_index]

\* a create_wallet that hands a failed call's index back to the allocator
generate_wallet_reclaim(t, ok) ==
  /\ task[t].pc = "generate"
  /\ IF ok
     THEN /\ task' = [task EXCEPT ![t].pc = "insert", ![t].wallet = <<new_wallet(t)>>]
          /\ UNCHANGED <<processed, faults, store>>
     ELSE /\ faults < MaxFaults
          /\ faults' = faults + 1
          /\ task' = task_failed(t, "WalletGenerationException")
          /\ processed' = handler_discard(t)
          /\ store' = cache_set(store, index_cache_key(task[t].network),
                                task[t].derivation_index, now)
  /\ UNCHANGED <<wallets, now, index_locks, pub, published, allocated,
                 cpc, running, position, committed, batch, commit_attempt,
                 batches>>

\* generator.generate returns or raises; create_wallet's except turns every
\* failure into WalletGenerationException and the handler re-raises it
generate_wallet(t, ok) ==
  /\ task[t].pc = "generate"
  /\ IF ok
     THEN /\ task' = [task EXCEPT ![t].pc = "insert", ![t].wallet = <<new_wallet(t)>>]
          /\ UNCHANGED <<processed, faults>>
     ELSE /\ faults < MaxFaults
          /\ faults' = faults + 1
          /\ task' = task_failed(t, "WalletGenerationException")
          /\ processed' = handler_discard(t)
  /\ UNCHANGED <<wallets, store, now, index_locks, pub, published, allocated,
                 cpc, running, position, committed, batch, commit_attempt,
                 batches>>

\* a create_wallet that writes the cache entry before the insert is known
\* to have succeeded
repository_create_cache_first(t, db_ok) ==
  /\ task[t].pc = "insert"
  /\ db_ok \/ faults < MaxFaults
  /\ faults' = IF db_ok THEN faults ELSE faults + 1
  /\ LET wallet == [task[t].wallet[1] EXCEPT !.id = t] IN
     IF db_ok /\ ~violates_unique(wallet)
     THEN /\ wallets' = wallets \cup {wallet}
          /\ store' = cache_set(store,
                                wallet_cache_key(task[t].user_id, task[t].network),
                                wallet, now)
          /\ pub' = [pub EXCEPT ![t] = [NoPublish EXCEPT !.state = "pending"]]
          /\ task' = task_done(t, "created", <<wallet>>)
          /\ UNCHANGED processed
     ELSE /\ task' = task_failed(t, "WalletGenerationException")
          /\ processed' = handler_discard(t)
          /\ store' = cache_set(store,
                                wallet_cache_key(task[t].user_id, task[t].network),
                                wallet, now)
          /\ UNCHANGED <<wallets, pub>>
  /\ UNCHANGED <<now, index_locks, published, allocated, cpc, running,
                 position, committed, batch, commit_attempt, batches>>

\* create_wallet resumed after repository.create (session.flush): on success
\* the cache is written and the publish task is created
repository_create(t, db_ok) ==
  /\ task[t].pc = "insert"
  /\ db_ok \/ faults < MaxFaults
  /\ faults' = IF db_ok THEN faults ELSE faults + 1
  /\ LET wallet == [task[t].wallet[1] EXCEPT !.id = t] IN
     IF db_ok /\ ~violates_unique(wallet)
     THEN /\ wallets' = wallets \cup {wallet}
          /\ store' = cache_set(store,
                                wallet_cache_key(task[t].user_id, task[t].network),
                                wallet, now)
          /\ pub' = [pub EXCEPT ![t] = [NoPublish EXCEPT !.state = "pending"]]
          /\ task' = task_done(t, "created", <<wallet>>)
          /\ UNCHANGED processed
     ELSE /\ task' = task_failed(t, "WalletGenerationException")
          /\ processed' = handler_discard(t)
          /\ UNCHANGED <<wallets, store, pub>>
  /\ UNCHANGED <<now, index_locks, published, allocated, cpc, running,
                 position, committed, batch, commit_attempt, batches>>

\* an event whose address is derived again, from the index after the wallet's
wallet_created_event_rederived(t) ==
  [task |-> t, user_id |-> task[t].wallet[1].user_id,
   network |-> task[t].wallet[1].network,
   wallet_address |-> generate_address(task[t].wallet[1].network,
                                       task[t].wallet[1].user_id,
                                       task[t].wallet[1].derivation_index + 1)]

\* WalletCreatedEvent built by _publish_wallet_created
wallet_created_event(t) ==
  [task |-> t, user_id |-> task[t].wallet[1].user_id,
   network |-> task[t].wallet[1].network,
   wallet_address |-> task[t].wallet[1].wallet_address]

\* a retry loop that sleeps one second after every failure
backoff_constant(attempt) == 1

\* asyncio.sleep(2 ** attempt) of the publish retry loops
backoff(attempt) == 2 ^ attempt

\* one pass of the retry loop of _publish_wallet_created
publish_wallet_created(t, ok) ==
  /\ pub[t].state = "pending"
  /\ IF ok
     THEN /\ published' = published \cup {wallet_created_event(t)}
          /\ pub' = [pub EXCEPT ![t].state = "published"]
     ELSE /\ published' = published
          /\ pub' = IF pub[t].attempt < PublishAttempts - 1
                    THEN [pub EXCEPT ![t].attempt = @ + 1,
                            ![t].slept = Append(@, backoff(pub[t].attempt))]
                    ELSE [pub EXCEPT ![t].state = "dropped"]
  /\ UNCHANGED <<wallets, store, now, index_locks, processed, task, allocated,
                 cpc, running, position, committed, batch, commit_attempt,
                 batches, faults>>

\* ------------------------------------------------------------ consumer
\* _consume_loop: getmany returned n records; one task per record
poll(records) ==
  /\ cpc = "poll"
  /\ running
  /\ Len(records) \in 1..MaxBatch
  /\ position + Len(records) <= MaxRecords
  /\ task' = [t \in Tasks |->
                IF t \in (position + 1)..(position + Len(records))
                THEN [IdleTask EXCEPT !.pc = "start",
                                      !.offset = t - 1,
                                      !.user_id = records[t - position].user_id,
                                      !.network = records[t - position].network,
                                      !.timestamp = records[t - position].timestamp]
                ELSE task[t]]
  /\ batch' = (position + 1)..(position + Len(records))
  /\ position' = position + Len(records)
  /\ cpc' = "gather"
  /\ UNCHANGED <<wallets, store, now, index_locks, processed, pub, published,
                 allocated, running, committed, commit_attempt, batches, faults>>

\* the while test fails after stop(): the loop ends
loop_exit ==
  /\ cpc = "poll"
  /\ ~running
  /\ cpc' = "stopped"
  /\ UNCHANGED <<wallets, store, now, index_locks, processed, task, pub,
                 published, allocated, running, position, committed, batch,
                 commit_attempt, batches, faults>>

\* a consumer that inspects only the first result of the gather
failures_first_result(b) ==
  {t \in b : task[t].result = "error" /\ \A u \in b : t <= u}

\* results of asyncio.gather(..., return_exceptions=True)
failures(b) == {t \in b : task[t].result = "error"}

\* _consume_loop resumed after gather: unless a task raised, _commit_offsets
\* starts and issues its first consumer.commit()
gather ==
  /\ cpc = "gather"
  /\ \A t \in batch : task[t].pc = "done"
  /\ IF failures(batch) /= {}
     THEN /\ cpc' = "poll"
          /\ batches' = Append(batches, [tasks |-> batch, commit_calls |-> 0,
                                      slept |-> <<>>])
     ELSE /\ cpc' = "commit"
          /\ batches' = Append(batches, [tasks |-> batch, commit_calls |-> 1,
                                      slept |-> <<>>])
  /\ commit_attempt' = 0
  /\ batch' = {}
  /\ UNCHANGED <<wallets, store, now, index_locks, processed, task, pub,
                 published, allocated, running, position, committed, faults>>

\* a _commit_offsets that logs the third failure and returns
commit_offsets_swallow(ok) ==
  /\ cpc = "commit"
  /\ IF ok
     THEN /\ committed' = position
          /\ cpc' = "poll"
          /\ UNCHANGED <<commit_attempt, running, batches>>
     ELSE IF commit_attempt < CommitAttempts - 1
     THEN /\ commit_attempt' = commit_attempt + 1
          /\ batches' = [batches EXCEPT
                          ![Len(batches)].commit_calls = @ + 1,
                          ![Len(batches)].slept = Append(@, backoff(commit_attempt))]
          /\ UNCHANGED <<committed, cpc, running>>
     ELSE \* the error is logged and the loop goes on
          /\ cpc' = "poll"
          /\ UNCHANGED <<committed, commit_attempt, batches, running>>
  /\ UNCHANGED <<wallets, store, now, index_locks, processed, task, pub,
                 published, allocated, position, batch, faults>>

\* _commit_offsets resumed after consumer.commit(): return, or sleep
\* 2 ** attempt and call commit again, or re-raise after the last attempt
commit_offsets(ok) ==
  /\ cpc = "commit"
  /\ IF ok
     THEN /\ committed' = position
          /\ cpc' = "poll"
          /\ UNCHANGED <<commit_attempt, running, batches>>
     ELSE IF commit_attempt < CommitAttempts - 1
     THEN /\ commit_attempt' = commit_attempt + 1
          /\ batches' = [batches EXCEPT
                          ![Len(batches)].commit_calls = @ + 1,
                          ![Len(batches)].slept = Append(@, backoff(commit_attempt))]
          /\ UNCHANGED <<committed, cpc, running>>
     ELSE \* the error leaves the loop; finally: stop()
          /\ cpc' = "stopped"
          /\ running' = FALSE
          /\ UNCHANGED <<committed, commit_attempt, batches>>
  /\ UNCHANGED <<wallets, store, now, index_locks, processed, task, pub,
                 published, allocated, position, batch, faults>>

\* KafkaEventConsumer.stop called at shutdown
stop ==
  /\ running
  /\ running' = FALSE
  /\ UNCHANGED <<wallets, store, now, index_locks, processed, task, pub,
                 published, allocated, cpc, position, committed, batch,
                 commit_attempt, batches, faults>>

\* time passes: up to the ttl of an entry written now, or just beyond it
tick(d) ==
  /\ now + d <= MaxTime
  /\ now' = now + d
  /\ UNCHANGED <<wallets, store, index_locks, processed, task, pub, published,
                 allocated, cpc, running, position, committed, batch,
                 commit_attempt, batches, faults>>

\* ------------------------------------------------ verification service
IdleCall ==
  [pc |-> "idle", user_id |-> None, network |-> None, size |-> 0,
   verification |-> <<>>, result |-> None, exc |-> None, ops |-> {},
   saw_verified |-> FALSE, wake |-> 0,
   service |-> 0, holding |-> FALSE, queued |-> FALSE]

\* POST /verify has not answered
NoResponse == [status_code |-> 0, status |-> ""]

\* the verification service's state for a wiring: service[c] is the
\* VerificationService instance (and so the semaphore) that call c runs on
InitVerificationOn(service) ==
  /\ verifications = {}
  /\ response = [c \in Calls |-> NoResponse]
  /\ call = [c \in Calls |-> [IdleCall EXCEPT !.service = service[c]]]
  /\ vnow = 0
  /\ vpub = [c \in Calls |-> NoPublish]
  /\ vpublished = {}
  /\ storage_faults = 0

\* get_verification_service builds a VerificationService per request
InitVerification == InitVerificationOn([c \in Calls |-> c])

\* one VerificationService instance serving every call
InitSharedService == InitVerificationOn([c \in Calls |-> 1])

\* the rows a request's session sees: committed ones and its own
visible(c) == {r \in verifications : r.committed \/ r.owner = c}

\* get_session: commit on a clean return
session_commit(c, rows) ==
  {IF r.owner = c THEN [r EXCEPT !.committed = TRUE] ELSE r : r \in rows}

\* get_session: rollback when the request raised
session_rollback(c, rows) == {r \in rows : r.owner /= c \/ r.committed}

\* VerificationRepository._to_domain
to_domain(r) ==
  [id |-> r.id, user_id |-> r.user_id, network |-> r.network,
   status |-> r.status, verified_at |-> r.verified_at,
   created_at |-> r.created_at]

\* async with self._semaphore: __aexit__ releases the permit
release(rec) == [rec EXCEPT !.holding = FALSE]

call_failed(c, exc, op) ==
  [call EXCEPT ![c] = release([call[c] EXCEPT !.pc = "done",
                                 !.result = "error", !.exc = exc,
                                 !.ops = @ \cup op])]

\* asyncio.Semaphore: a permit of the call's service instance is free
permit_free(c) ==
  Cardinality({d \in Calls : call[d].holding
                              /\ call[d].service = call[c].service}) < MaxPermits

\* a size check that also refuses a document of exactly the limit
document_too_large_inclusive(size, limit_mb) == size >= limit_mb * 1024 * 1024

\* len(document_data) > max_document_size_mb * 1024 * 1024
document_too_large(size, limit_mb) == size > limit_mb * 1024 * 1024

\* verify_user from the acquired permit to the repository lookup: decode
\* and check the size
verify_user_size_check(rec, limit_mb) ==
  IF document_too_large(rec.size, limit_mb)
  THEN release([rec EXCEPT !.pc = "done", !.result = "error",
                           !.exc = "ValueError"])
  ELSE [rec EXCEPT !.pc = "lookup", !.holding = TRUE]

verify_user_enter(rec) == verify_user_size_check(rec, max_document_size_mb)

\* verify_user is called: it takes a permit and runs to the repository
\* lookup, or queues on the semaphore
verify_user(c, user_id, network, size) ==
  /\ call[c].pc = "idle"
  /\ \A d \in Calls : d < c => call[d].pc /= "idle"
  /\ LET started == [call[c] EXCEPT !.user_id = user_id, !.network = network,
                                    !.size = size] IN
     IF permit_free(c)
     THEN call' = [call EXCEPT ![c] = verify_user_enter(started)]
     ELSE call' = [call EXCEPT ![c] = [started EXCEPT !.pc = "acquire",
                                                      !.queued = TRUE]]
  /\ UNCHANGED <<verifications, vnow, vpub, vpublished, storage_faults>>

\* a queued verify_user resumed with a permit
verify_user_acquired(c) ==
  /\ call[c].pc = "acquire"
  /\ permit_free(c)
  /\ call' = [call EXCEPT ![c] = verify_user_enter(call[c])]
  /\ UNCHANGED <<verifications, vnow, vpub, vpublished, storage_faults>>

\* verify_user resumed after repository.get_by_user_and_network
verify_user_lookup(c) ==
  /\ call[c].pc = "lookup"
  /\ LET rows == {r \in visible(c) : r.user_id = call[c].user_id
                                      /\ r.network = call[c].network}
         seen == \E r \in rows : r.status = "verified"
         looked == [call EXCEPT ![c].ops = @ \cup {"lookup"},
                                ![c].saw_verified = seen] IN
     IF Cardinality(rows) > 1
     THEN \* scalar_one_or_none raises
          /\ call' = [looked EXCEPT ![c] = release([@ EXCEPT !.pc = "done",
                          !.result = "error", !.exc = "MultipleResultsFound"])]
          /\ verifications' = session_rollback(c, verifications)
     ELSE IF seen
     THEN LET existing == CHOOSE r \in rows : TRUE IN
          /\ call' = [looked EXCEPT ![c] = release([@ EXCEPT !.pc = "done",
                          !.result = "existing",
                          !.verification = <<to_domain(existing)>>])]
          /\ verifications' = session_commit(c, verifications)
     ELSE IF call[c].network \notin NetworkTypeValues
     THEN \* NetworkType(network) raises ValueError
          /\ call' = [looked EXCEPT ![c] = release([@ EXCEPT !.pc = "done",
                          !.result = "error", !.exc = "ValueError"])]
          /\ verifications' = session_rollback(c, verifications)
     ELSE /\ call' = [looked EXCEPT ![c].pc = "save",
                        ![c].verification =
                           <<[id |-> 0, user_id |-> call[c].user_id,
                              network |-> call[c].network, status |-> "pending",
                              verified_at |-> -1, created_at |-> vnow]>>]
          /\ verifications' = verifications
  /\ UNCHANGED <<vnow, vpub, vpublished, storage_faults>>

\* a verify_user that creates the publish task right after the insert
verification_save_publishes(c, db_ok) ==
  /\ call[c].pc = "save"
  /\ db_ok \/ storage_faults < MaxStorageFaults
  /\ storage_faults' = IF db_ok THEN storage_faults ELSE storage_faults + 1
  /\ LET v == call[c].verification[1] IN
     IF db_ok
     THEN /\ verifications' = verifications \cup
               {[id |-> c, user_id |-> v.user_id, network |-> v.network,
                 status |-> v.status, verified_at |-> v.verified_at,
                 created_at |-> v.created_at, owner |-> c, committed |-> FALSE]}
          /\ call' = [call EXCEPT ![c].pc = "sleep", ![c].ops = @ \cup {"save"},
                        ![c].verification = <<[v EXCEPT !.id = c]>>,
                        ![c].wake = vnow + verification_delay_seconds]
          /\ vpub' = [vpub EXCEPT ![c] = [NoPublish EXCEPT !.state = "pending"]]
     ELSE /\ verifications' = session_rollback(c, verifications)
          /\ call' = call_failed(c, "StorageError", {"save"})
          /\ vpub' = vpub
  /\ UNCHANGED <<vnow, vpublished>>

\* verify_user resumed after repository.save; then it sleeps
verification_save(c, db_ok) ==
  /\ call[c].pc = "save"
  /\ db_ok \/ storage_faults < MaxStorageFaults
  /\ storage_faults' = IF db_ok THEN storage_faults ELSE storage_faults + 1
  /\ LET v == call[c].verification[1] IN
     IF db_ok
     THEN /\ verifications' = verifications \cup
               {[id |-> c, user_id |-> v.user_id, network |-> v.network,
                 status |-> v.status, verified_at |-> v.verified_at,
                 created_at |-> v.created_at, owner |-> c, committed |-> FALSE]}
          /\ call' = [call EXCEPT ![c].pc = "sleep", ![c].ops = @ \cup {"save"},
                        ![c].verification = <<[v EXCEPT !.id = c]>>,
                        ![c].wake = vnow + verification_delay_seconds]
     ELSE /\ verifications' = session_rollback(c, verifications)
          /\ call' = call_failed(c, "StorageError", {"save"})
  /\ UNCHANGED <<vnow, vpub, vpublished>>

\* UserVerification.verify
verify(v, t) == [v EXCEPT !.status = "verified", !.verified_at = t]

\* verify_user resumed after the sleep: verify() on the in-memory model
verify_user_wake(c) ==
  /\ call[c].pc = "sleep"
  /\ vnow >= call[c].wake
  /\ call' = [call EXCEPT ![c].pc = "update",
                ![c].verification = <<verify(call[c].verification[1], vnow)>>]
  /\ UNCHANGED <<verifications, vnow, vpub, vpublished, storage_faults>>

\* VerificationRepository.update_status: update ... values(status=...)
update_status(rows, verification_id, status) ==
  {IF r.id = verification_id THEN [r EXCEPT !.status = status] ELSE r : r \in rows}

\* a verify_user that creates the publish task before the status update
verify_user_update_publish_first(c, db_ok) ==
  /\ call[c].pc = "update"
  /\ db_ok \/ storage_faults < MaxStorageFaults
  /\ storage_faults' = IF db_ok THEN storage_faults ELSE storage_faults + 1
  /\ vpub' = [vpub EXCEPT ![c] = [NoPublish EXCEPT !.state = "pending"]]
  /\ LET v == call[c].verification[1] IN
     IF db_ok
     THEN /\ verifications' =
               session_commit(c, update_status(verifications, v.id, v.status))
          /\ call' = [call EXCEPT ![c] = release([@ EXCEPT !.pc = "done",
                          !.result = "ok", !.ops = @ \cup {"update"}])]
     ELSE /\ verifications' = session_rollback(c, verifications)
          /\ call' = call_failed(c, "StorageError", {"update"})
  /\ UNCHANGED <<vnow, vpublished>>

\* verify_user resumed after repository.update_status: the publish task is
\* created and the verification returned
verify_user_update(c, db_ok) ==
  /\ call[c].pc = "update"
  /\ db_ok \/ storage_faults < MaxStorageFaults
  /\ storage_faults' = IF db_ok THEN storage_faults ELSE storage_faults + 1
  /\ LET v == call[c].verification[1] IN
     IF db_ok
     THEN /\ verifications' =
               session_commit(c, update_status(verifications, v.id, v.status))
          /\ vpub' = [vpub EXCEPT ![c] = [NoPublish EXCEPT !.state = "pending"]]
          /\ call' = [call EXCEPT ![c] = release([@ EXCEPT !.pc = "done",
                          !.result = "ok", !.ops = @ \cup {"update"}])]
     ELSE /\ verifications' = session_rollback(c, verifications)
          /\ vpub' = vpub
          /\ call' = call_failed(c, "StorageError", {"update"})
  /\ UNCHANGED <<vnow, vpublished>>

\* UserVerifiedEvent built by _publish_event
user_verified_event(c) ==
  [call |-> c, user_id |-> call[c].verification[1].user_id,
   network |-> call[c].verification[1].network]

\* a retry loop that gives up one failure later
publish_event_extra_attempt(c, ok) ==
  /\ vpub[c].state = "pending"
  /\ IF ok
     THEN /\ vpublished' = vpublished \cup {user_verified_event(c)}
          /\ vpub' = [vpub EXCEPT ![c].state = "published"]
     ELSE /\ vpublished' = vpublished
          /\ vpub' = IF vpub[c].attempt < PublishAttempts
                     THEN [vpub EXCEPT ![c].attempt = @ + 1,
                             ![c].slept = Append(@, backoff(vpub[c].attempt))]
                     ELSE [vpub EXCEPT ![c].state = "dropped"]
  /\ UNCHANGED <<verifications, call, vnow, storage_faults>>

\* one pass of the retry loop of _publish_event
publish_event(c, ok) ==
  /\ vpub[c].state = "pending"
  /\ IF ok
     THEN /\ vpublished' = vpublished \cup {user_verified_event(c)}
          /\ vpub' = [vpub EXCEPT ![c].state = "published"]
     ELSE /\ vpublished' = vpublished
          /\ vpub' = IF vpub[c].attempt < PublishAttempts - 1
                     THEN [vpub EXCEPT ![c].attempt = @ + 1,
                             ![c].slept = Append(@, backoff(vpub[c].attempt))]
                     ELSE [vpub EXCEPT ![c].state = "dropped"]
  /\ UNCHANGED <<verifications, call, vnow, storage_faults>>

\* time passes in the verification service
vtick ==
  /\ vnow + verification_delay_seconds <= MaxVerificationTime
  /\ vnow' = vnow + verification_delay_seconds
  /\ UNCHANGED <<verifications, call, vpub, vpublished, storage_faults>>

\* exceptions of the service that derive from BaseServiceException, and
\* the status code each carries
BaseServiceExceptions == {"DocumentTooLargeException"}

exception_status_code(exc) ==
  CASE exc = "DocumentTooLargeException" -> 413
    [] OTHER -> 500

\* the answer of the POST /verify route once verify_user has returned or
\* raised; the request validator lets only a supported network through to
\* the route body, so a call with any other network did not come by HTTP
route_response(rec) ==
  IF rec.pc /= "done" \/ rec.network \notin NetworkTypeValues
  THEN NoResponse
  ELSE IF rec.result \in {"ok", "existing"}
  THEN [status_code |-> 202, status |-> rec.verification[1].status]
  ELSE IF rec.exc \in BaseServiceExceptions
  THEN [status_code |-> exception_status_code(rec.exc), status |-> ""]
  ELSE [status_code |-> 500, status |-> ""]

\* the route around verify_user: every call that has finished is answered
verify_user_route == response' = [c \in Calls |-> route_response(call'[c])]

NextVerification ==
  \/ \E c \in Calls, user_id \in Users, network \in VerificationNetworks,
        size \in DocumentSizes :
       verify_user(c, user_id, network, size) /\ verify_user_route
       /\ UNCHANGED <<wvars, pvars>>
  \/ \E c \in Calls : verify_user_lookup(c) /\ verify_user_route
       /\ UNCHANGED <<wvars, pvars>>
  \/ \E c \in Calls, db_ok \in BOOLEAN : verification_save(c, db_ok) /\ verify_user_route
       /\ UNCHANGED <<wvars, pvars>>
  \/ \E c \in Calls : verify_user_wake(c) /\ verify_user_route
       /\ UNCHANGED <<wvars, pvars>>
  \/ \E c \in Calls, db_ok \in BOOLEAN : verify_user_update(c, db_ok) /\ verify_user_route
       /\ UNCHANGED <<wvars, pvars>>
  \/ \E c \in Calls, ok \in BOOLEAN : publish_event(c, ok) /\ verify_user_route
       /\ UNCHANGED <<wvars, pvars>>
  \/ vtick /\ verify_user_route
       /\ UNCHANGED <<wvars, pvars>>

\* time passes past MaxVerificationTime while a call is in asyncio.sleep
vtick_asleep ==
  /\ vnow + verification_delay_seconds > MaxVerificationTime
  /\ \E c \in Calls : call[c].pc = "sleep" /\ call[c].wake > vnow
  /\ vnow' = vnow + verification_delay_seconds
  /\ UNCHANGED <<verifications, call, vpub, vpublished, storage_faults>>

\* the verification service with every call on one VerificationService
\* instance, as many callers of one user as the semaphore cannot admit at once
NextSharedService ==
  \/ \E c \in Calls, network \in VerificationNetworks, size \in DocumentSizes :
       verify_user(c, "u1", network, size) /\ verify_user_route
       /\ UNCHANGED <<wvars, pvars>>
  \/ \E c \in Calls : verify_user_acquired(c) /\ verify_user_route
       /\ UNCHANGED <<wvars, pvars>>
  \/ \E c \in Calls : verify_user_lookup(c) /\ verify_user_route
       /\ UNCHANGED <<wvars, pvars>>
  \/ \E c \in Calls, db_ok \in BOOLEAN : verification_save(c, db_ok) /\ verify_user_route
       /\ UNCHANGED <<wvars, pvars>>
  \/ \E c \in Calls : verify_user_wake(c) /\ verify_user_route
       /\ UNCHANGED <<wvars, pvars>>
  \/ \E c \in Calls, db_ok \in BOOLEAN : verify_user_update(c, db_ok) /\ verify_user_route
       /\ UNCHANGED <<wvars, pvars>>
  \/ \E c \in Calls, ok \in BOOLEAN : publish_event(c, ok) /\ verify_user_route
       /\ UNCHANGED <<wvars, pvars>>
  \/ vtick /\ verify_user_route
       /\ UNCHANGED <<wvars, pvars>>
  \/ vtick_asleep /\ verify_user_route
       /\ UNCHANGED <<wvars, pvars>>

\* the event loop runs every task that can run, and time passes
FairnessSharedService ==
  /\ \A c \in Calls :
       /\ WF_vars(verify_user_acquired(c) /\ UNCHANGED <<wvars, pvars>>)
       /\ WF_vars(verify_user_lookup(c) /\ UNCHANGED <<wvars, pvars>>)
       /\ WF_vars((\E db_ok \in BOOLEAN : verification_save(c, db_ok))
                    /\ UNCHANGED <<wvars, pvars>>)
       /\ WF_vars(verify_user_wake(c) /\ UNCHANGED <<wvars, pvars>>)
       /\ WF_vars((\E db_ok \in BOOLEAN : verify_user_update(c, db_ok))
                    /\ UNCHANGED <<wvars, pvars>>)
  /\ WF_vars((vtick \/ vtick_asleep) /\ UNCHANGED <<wvars, pvars>>)

\* ------------------------------------------ components on their own
\* cache calls: keys, values and the ttl argument (<<>> when omitted)
CacheKeys == {<<"a">>, <<"b">>}
CacheValues == {"v1", "v2"}
CacheTtls == {<<>>, <<0>>, <<1>>, <<2>>}

NoCacheOp ==
  [op |-> "none", key |-> <<>>, result |-> <<>>, at |-> 0, last_set |-> <<>>,
   present |-> FALSE]

InitCache ==
  /\ cstore = <<>>
  /\ cnow = 0
  /\ cticks = 0
  /\ cset = [k \in CacheKeys |-> <<>>]
  /\ cop = NoCacheOp

\* a verification service configured with one of the given size limits
NoDocumentCheck == [size |-> -1, pc |-> "idle", exc |-> ""]

InitDocumentCheck(limits) ==
  /\ dlimit \in limits
  /\ dcheck = NoDocumentCheck

\* the generators of a new WalletGeneratorFactory
InitGeneratorsOn(verdicts) ==
  /\ path_cache = [network \in GeneratorNetworks |-> <<>>]
  /\ generated = {}
  /\ gcalls = 0
  /\ rejected \in verdicts

\* generators whose validate_address accepts every address they derive
InitGenerators == InitGeneratorsOn({{}})

\* no get_wallet call has been made
IdleRead ==
  [pc |-> "idle", user_id |-> None, network |-> None, result |-> <<>>,
   exc |-> None, queried |-> FALSE]

InitReads ==
  /\ reads = [r \in Readers |-> IdleRead]
  /\ last_accessed = [id \in StoredIds |-> -1]
  /\ touches = {}

\* a publisher on which nothing has been published yet
IdlePublish ==
  [pc |-> "idle", op |-> "", n |-> 0, producer |-> 0, issued |-> {},
   failed |-> {}, logged |-> -1, result |-> ""]

InitPublisher(services) ==
  /\ publisher_of \in services
  /\ producer = 0
  /\ instances = <<>>
  /\ producer_lock = 0
  /\ publisher = [c \in Publishers |-> IdlePublish]
  /\ sends = {}
  /\ kcalls = 0

InitComponents ==
  /\ InitCache /\ InitDocumentCheck({max_document_size_mb}) /\ InitGenerators
  /\ InitReads /\ InitPublisher({"wallet"})

\* await cache.set(key, value, ttl)
cache_service_set(key, value, ttl) ==
  /\ cstore' = cache_set_ttl(cstore, key, value, ttl, cnow)
  /\ cset' = [cset EXCEPT ![key] = <<[value |-> value, at |-> cnow, ttl |-> ttl]>>]
  /\ cop' = [NoCacheOp EXCEPT !.op = "set", !.key = key, !.at = cnow]
  /\ UNCHANGED <<cnow, cticks>>

\* await cache.get(key)
cache_service_get(key) ==
  /\ cstore' = cache_get_store(cstore, key, cnow)
  /\ cop' = [op |-> "get", key |-> key, result |-> cache_get(cstore, key, cnow),
             at |-> cnow, last_set |-> cset[key],
             present |-> prefixed(key) \in DOMAIN cstore']
  /\ UNCHANGED <<cnow, cticks, cset>>

\* await cache.delete(key)
cache_service_delete(key) ==
  /\ cstore' = cache_delete(cstore, key)
  /\ cset' = [cset EXCEPT ![key] = <<>>]
  /\ cop' = [NoCacheOp EXCEPT !.op = "delete", !.key = key, !.at = cnow]
  /\ UNCHANGED <<cnow, cticks>>

\* time passes between two cache calls
cache_tick(d) ==
  /\ cticks < MaxCacheTicks
  /\ cticks' = cticks + 1
  /\ cnow' = cnow + d
  /\ UNCHANGED <<cstore, cset, cop>>

\* the sizes around a limit
MiB == 1024 * 1024

SizesAround(limit_mb) ==
  {0, limit_mb * MiB - 1, limit_mb * MiB, limit_mb * MiB + 1,
   2 * limit_mb * MiB}

\* verify_user up to the size check, on a document of the given length
document_size_check(size) ==
  LET rec == verify_user_size_check(
               [IdleCall EXCEPT !.size = size, !.holding = TRUE], dlimit)
  IN  /\ dcheck' = [size |-> size, pc |-> rec.pc, exc |-> rec.exc]
      /\ UNCHANGED dlimit

NextDocumentSize ==
  \E size \in SizesAround(dlimit) :
    document_size_check(size) /\ UNCHANGED <<wvars, vvars, cvars, gvars, rvars, kvars>>

\* one _path_cache dict for all generators
path_cache_owner_shared(network) == "ethereum"

\* self._path_cache = {} in __init__: each generator has its own dict
path_cache_owner(network) == network

\* get_derivation_path on a generator's cache: the cache afterwards and the
\* path returned
cached_derivation_path(cache, base, index) ==
  LET after == IF index \in DOMAIN cache
               THEN cache
               ELSE [i \in DOMAIN cache \cup {index} |->
                       IF i = index THEN <<base, index>> ELSE cache[i]]
  IN  [cache |-> after, path |-> after[index]]

\* Mnemonic.to_seed(mnemonic, passphrase)
to_seed(mnemonic, user_id) == <<mnemonic, derive_seed(user_id)>>

\* generate_address(seed, path): a digest of seed + path
address_from(seed, path) == <<seed, path>>

\* validate_address on an address the generator produced: the Ethereum
\* generator compares a checksum address with its own checksum form, the
\* Bitcoin generator tests length and alphabet
validate_address(network, address) ==
  network = "ethereum" \/ address \notin rejected

\* a generate that returns the address without looking at the verdict
generate_result_unchecked(valid, address) ==
  [address |-> address, exc |-> None]

\* if not await self.validate_address(address): raise, else return address
generate_result(valid, address) ==
  IF valid THEN [address |-> address, exc |-> None]
  ELSE [address |-> <<>>, exc |-> "WalletGenerationException"]

\* await generator.generate(mnemonic, user_id, derivation_index) on the
\* generator of the network
generator_generate(network, mnemonic, user_id, index) ==
  LET owner == path_cache_owner(network)
      got == cached_derivation_path(path_cache[owner],
                                    base_derivation_path(network), index)
      address == address_from(to_seed(mnemonic, user_id), got.path)
  IN  /\ gcalls < MaxGenerateCalls
      /\ gcalls' = gcalls + 1
      /\ path_cache' = [path_cache EXCEPT ![owner] = got.cache]
      /\ generated' = generated \cup
           {[network |-> network, mnemonic |-> mnemonic, user_id |-> user_id,
             index |-> index, path |-> got.path,
             result |-> generate_result(validate_address(network, address),
                                        address).address,
             exc |-> generate_result(validate_address(network, address),
                                     address).exc]}
      /\ UNCHANGED rejected

NextGenerator ==
  \E network \in GeneratorNetworks, mnemonic \in Mnemonics, user_id \in Users,
     index \in GeneratorIndexes :
    generator_generate(network, mnemonic, user_id, index)
    /\ UNCHANGED <<wvars, vvars, cvars, dvars, rvars, kvars>>

NextCache ==
  \/ \E key \in CacheKeys, value \in CacheValues, ttl \in CacheTtls :
       cache_service_set(key, value, ttl) /\ UNCHANGED <<wvars, vvars, dvars, gvars, rvars, kvars>>
  \/ \E key \in CacheKeys : cache_service_get(key) /\ UNCHANGED <<wvars, vvars, dvars, gvars, rvars, kvars>>
  \/ \E key \in CacheKeys : cache_service_delete(key) /\ UNCHANGED <<wvars, vvars, dvars, gvars, rvars, kvars>>
  \/ \E d \in {1, cache_ttl_seconds} : cache_tick(d) /\ UNCHANGED <<wvars, vvars, dvars, gvars, rvars, kvars>>

\* ----------------------------------------------------------- get_wallet
\* rows create_wallet may have stored: two users, and a second row for one
\* pair, which the table admits
StoredWallets ==
  {[id |-> 1, user_id |-> "u1", network |-> "ethereum", derivation_index |-> 0,
    wallet_address |-> generate_address("ethereum", "u1", 0)],
   [id |-> 2, user_id |-> "u2", network |-> "ethereum", derivation_index |-> 1,
    wallet_address |-> generate_address("ethereum", "u2", 1)],
   [id |-> 3, user_id |-> "u1", network |-> "ethereum", derivation_index |-> 2,
    wallet_address |-> generate_address("ethereum", "u1", 2)]}

\* a get_wallet that updates last_accessed_at itself on a cache hit
get_wallet_touch_first(r, user_id, network) ==
  /\ reads[r].pc = "idle"
  /\ LET cache_key == wallet_cache_key(user_id, network)
         cached_wallet == cache_get(store, cache_key, now)
         called == [reads[r] EXCEPT !.user_id = user_id, !.network = network] IN
     IF cached_wallet /= <<>>
     THEN /\ last_accessed' = [last_accessed EXCEPT ![cached_wallet[1].id] = now]
          /\ reads' = [reads EXCEPT ![r] = [called EXCEPT !.pc = "done",
                                                        !.result = cached_wallet]]
          /\ UNCHANGED <<store, touches>>
     ELSE /\ store' = cache_get_store(store, cache_key, now)
          /\ reads' = [reads EXCEPT ![r] = [called EXCEPT !.pc = "lookup"]]
          /\ UNCHANGED <<touches, last_accessed>>
  /\ UNCHANGED <<wallets, now, index_locks, processed, task, pub, published,
                 allocated, cpc, running, position, committed, batch,
                 commit_attempt, batches, faults>>

\* get_wallet up to its return on a cache hit, where the update task is
\* created, or up to the repository lookup on a miss
get_wallet(r, user_id, network) ==
  /\ reads[r].pc = "idle"
  /\ LET cache_key == wallet_cache_key(user_id, network)
         cached_wallet == cache_get(store, cache_key, now)
         called == [reads[r] EXCEPT !.user_id = user_id, !.network = network] IN
     IF cached_wallet /= <<>>
     THEN /\ touches' = touches \cup
               {[reader |-> r, id |-> cached_wallet[1].id, state |-> "pending"]}
          /\ reads' = [reads EXCEPT ![r] = [called EXCEPT !.pc = "done",
                                                        !.result = cached_wallet]]
          /\ store' = store
     ELSE /\ store' = cache_get_store(store, cache_key, now)
          /\ reads' = [reads EXCEPT ![r] = [called EXCEPT !.pc = "lookup"]]
          /\ touches' = touches
  /\ UNCHANGED <<last_accessed, wallets, now, index_locks, processed, task, pub,
                 published, allocated, cpc, running, position, committed, batch,
                 commit_attempt, batches, faults>>

\* get_wallet resumed after repository.get_by_user_and_network: a wallet
\* found is cached before update_last_accessed is awaited
get_wallet_lookup(r) ==
  /\ reads[r].pc = "lookup"
  /\ LET rows == rows_by_user_and_network(reads[r].user_id, reads[r].network)
         asked == [reads[r] EXCEPT !.queried = TRUE] IN
     IF Cardinality(rows) > 1
     THEN \* scalar_one_or_none raises
          /\ reads' = [reads EXCEPT ![r] = [asked EXCEPT !.pc = "done",
                                   !.exc = "MultipleResultsFound"]]
          /\ store' = store
     ELSE IF rows /= {}
     THEN LET wallet == CHOOSE w \in rows : TRUE IN
          /\ store' = cache_set(store, wallet_cache_key(reads[r].user_id,
                                                          reads[r].network),
                                wallet, now)
          /\ reads' = [reads EXCEPT ![r] = [asked EXCEPT !.pc = "touch",
                                                       !.result = <<wallet>>]]
     ELSE /\ reads' = [reads EXCEPT ![r] = [asked EXCEPT !.pc = "done"]]
          /\ store' = store
  /\ UNCHANGED <<last_accessed, touches, wallets, now, index_locks, processed,
                 task, pub, published, allocated, cpc, running, position,
                 committed, batch, commit_attempt, batches, faults>>

\* get_wallet resumed after the awaited update_last_accessed, which ran or
\* raised
get_wallet_return(r, db_ok) ==
  /\ reads[r].pc = "touch"
  /\ db_ok \/ faults < MaxFaults
  /\ faults' = IF db_ok THEN faults ELSE faults + 1
  /\ IF db_ok
     THEN /\ last_accessed' = [last_accessed EXCEPT ![reads[r].result[1].id] = now]
          /\ reads' = [reads EXCEPT ![r].pc = "done"]
     ELSE /\ last_accessed' = last_accessed
          /\ reads' = [reads EXCEPT ![r].pc = "done", ![r].result = <<>>,
                                     ![r].exc = "StorageError"]
  /\ UNCHANGED <<touches, wallets, store, now, index_locks, processed, task,
                 pub, published, allocated, cpc, running, position, committed,
                 batch, commit_attempt, batches>>

\* the update_last_accessed task created on a cache hit runs; what it
\* raises is lost with the task
update_last_accessed(r, db_ok) ==
  /\ \E u \in touches :
       /\ u.reader = r /\ u.state = "pending"
       /\ db_ok \/ faults < MaxFaults
       /\ faults' = IF db_ok THEN faults ELSE faults + 1
       /\ touches' = (touches \ {u}) \cup
            {[u EXCEPT !.state = IF db_ok THEN "done" ELSE "failed"]}
       /\ last_accessed' = IF db_ok
                           THEN [last_accessed EXCEPT ![u.id] = now]
                           ELSE last_accessed
  /\ UNCHANGED <<reads, wallets, store, now, index_locks, processed, task,
                 pub, published, allocated, cpc, running, position, committed,
                 batch, commit_attempt, batches>>

NextGetWallet ==
  \/ \E r \in Readers, user_id \in Users, network \in RawNetworks :
       get_wallet(r, user_id, network)
       /\ UNCHANGED <<vvars, cvars, dvars, gvars, kvars>>
  \/ \E r \in Readers : get_wallet_lookup(r)
       /\ UNCHANGED <<vvars, cvars, dvars, gvars, kvars>>
  \/ \E r \in Readers, db_ok \in BOOLEAN : get_wallet_return(r, db_ok)
       /\ UNCHANGED <<vvars, cvars, dvars, gvars, kvars>>
  \/ \E r \in Readers, db_ok \in BOOLEAN : update_last_accessed(r, db_ok)
       /\ UNCHANGED <<vvars, cvars, dvars, gvars, kvars>>
  \/ \E d \in {cache_ttl_seconds, cache_ttl_seconds + 1} :
       tick(d) /\ UNCHANGED <<vvars, pvars>>

\* ------------------------------------------------- KafkaEventPublisher
\* if self._producer is None, tested on every call
producer_is_none_always == TRUE

\* if self._producer is None
producer_is_none == producer = 0

\* the wallet service's _get_producer takes self._lock around the creation;
\* the verification service's get_producer has no lock
uses_lock == publisher_of = "wallet"

\* publish(event) is called: the call runs up to _get_producer
publish(c) ==
  /\ publisher[c].pc \in {"idle", "done"}
  /\ kcalls < MaxPublishCalls
  /\ kcalls' = kcalls + 1
  /\ publisher' = [publisher EXCEPT ![c] =
                     [IdlePublish EXCEPT !.pc = "get_producer",
                                         !.op = "publish", !.n = 1]]
  /\ UNCHANGED <<publisher_of, producer, instances, producer_lock, sends>>

\* publish_batch(events) is called with a list of n events
publish_batch(c, n) ==
  /\ publisher[c].pc \in {"idle", "done"}
  /\ kcalls < MaxPublishCalls
  /\ kcalls' = kcalls + 1
  /\ publisher' = [publisher EXCEPT ![c] =
                     [IdlePublish EXCEPT !.pc = "get_producer",
                                         !.op = "publish_batch", !.n = n]]
  /\ UNCHANGED <<publisher_of, producer, instances, producer_lock, sends>>

\* AIOKafkaProducer(...) is constructed and assigned to self._producer, then
\* start() is awaited
create_producer(c) ==
  /\ instances' = Append(instances, [state |-> "starting", starts |-> 1])
  /\ producer' = Len(instances) + 1
  /\ producer_lock' = IF uses_lock THEN c ELSE producer_lock
  /\ publisher' = [publisher EXCEPT ![c].pc = "starting"]

\* return self._producer, back in publish/publish_batch
producer_returned(c) ==
  /\ publisher' = [publisher EXCEPT ![c].pc = "send", ![c].producer = producer]
  /\ UNCHANGED <<producer, instances>>

\* _get_producer up to its first suspension: the outer test, the lock, the
\* test repeated under the lock, the construction
get_producer(c) ==
  /\ publisher[c].pc \in {"get_producer", "lock"}
  /\ IF publisher[c].pc = "get_producer" /\ ~producer_is_none
     THEN producer_returned(c) /\ UNCHANGED producer_lock
     ELSE IF uses_lock /\ producer_lock /= 0
     THEN \* async with self._lock has to wait
          /\ publisher[c].pc = "get_producer"
          /\ publisher' = [publisher EXCEPT ![c].pc = "lock"]
          /\ UNCHANGED <<producer, instances, producer_lock>>
     ELSE IF producer_is_none
     THEN create_producer(c)
     ELSE \* the second test under the lock fails: leave the block
          producer_returned(c) /\ UNCHANGED producer_lock
  /\ UNCHANGED <<publisher_of, sends, kcalls>>

\* await self._producer.start() returns or raises; the lock is left either
\* way and an exception leaves publish/publish_batch
producer_start(c, ok) ==
  /\ publisher[c].pc = "starting"
  /\ instances' = [instances EXCEPT ![producer].state =
                     IF ok THEN "started" ELSE "failed"]
  /\ producer_lock' = IF uses_lock THEN 0 ELSE producer_lock
  /\ publisher' = [publisher EXCEPT
                     ![c].pc = IF ok THEN "send" ELSE "done",
                     ![c].producer = IF ok THEN producer ELSE 0,
                     ![c].result = IF ok THEN "" ELSE "start_error"]
  /\ UNCHANGED <<publisher_of, producer, sends, kcalls>>

\* the send issued on a producer, with the state the producer is in
send_on(p) == [producer |-> p, state |-> instances[p].state]

\* publish: await producer.send_and_wait(...), an exception is logged and
\* raised again
send_and_wait(c, ok) ==
  /\ publisher[c].pc = "send"
  /\ publisher[c].op = "publish"
  /\ sends' = sends \cup {send_on(publisher[c].producer)}
  /\ publisher' = [publisher EXCEPT
                     ![c].pc = "done",
                     ![c].issued = {1},
                     ![c].failed = IF ok THEN {} ELSE {1},
                     ![c].result = IF ok THEN "ok" ELSE "error"]
  /\ UNCHANGED <<publisher_of, producer, instances, producer_lock, kcalls>>

\* a publish_batch that gives up at the first send that fails
batch_sends_short_circuit(n, outcomes) ==
  {i \in 1..n : \A j \in 1..(i - 1) : outcomes[j]}

\* one producer.send(...) per event of the list, all handed to gather
batch_sends(n, outcomes) == 1..n

\* [r for r in results if isinstance(r, Exception)]
batch_failures(issued, outcomes) == {i \in issued : ~outcomes[i]}

\* publish_batch after _get_producer: the sends, asyncio.gather with
\* return_exceptions=True, the count of failures logged, the exception
publish_batch_gather(c, outcomes) ==
  /\ publisher[c].pc = "send"
  /\ publisher[c].op = "publish_batch"
  /\ outcomes \in [1..publisher[c].n -> BOOLEAN]
  /\ LET issued == batch_sends(publisher[c].n, outcomes)
         failed == batch_failures(issued, outcomes)
     IN /\ sends' = IF issued = {} THEN sends
                    ELSE sends \cup {send_on(publisher[c].producer)}
        /\ publisher' = [publisher EXCEPT
                           ![c].pc = "done",
                           ![c].issued = issued,
                           ![c].failed = failed,
                           ![c].logged = IF failed = {} THEN -1
                                         ELSE Cardinality(failed),
                           ![c].result = IF failed = {} THEN "ok" ELSE "error"]
  /\ UNCHANGED <<publisher_of, producer, instances, producer_lock, kcalls>>

BatchOutcomes == UNION {[1..n -> BOOLEAN] : n \in 0..MaxEvents}

NextPublisher ==
  \/ \E c \in Publishers : publish(c)
       /\ UNCHANGED <<wvars, vvars, cvars, dvars, gvars, rvars>>
  \/ \E c \in Publishers, n \in 0..MaxEvents : publish_batch(c, n)
       /\ UNCHANGED <<wvars, vvars, cvars, dvars, gvars, rvars>>
  \/ \E c \in Publishers : get_producer(c)
       /\ UNCHANGED <<wvars, vvars, cvars, dvars, gvars, rvars>>
  \/ \E c \in Publishers, ok \in BOOLEAN : producer_start(c, ok)
       /\ UNCHANGED <<wvars, vvars, cvars, dvars, gvars, rvars>>
  \/ \E c \in Publishers, ok \in BOOLEAN : send_and_wait(c, ok)
       /\ UNCHANGED <<wvars, vvars, cvars, dvars, gvars, rvars>>
  \/ \E c \in Publishers, outcomes \in BatchOutcomes :
       publish_batch_gather(c, outcomes)
       /\ UNCHANGED <<wvars, vvars, cvars, dvars, gvars, rvars>>

RecordBatches == UNION {[1..n -> Events] : n \in 1..MaxBatch}

\* a freshly started service
Init == InitWallet(0) /\ InitVerification /\ InitComponents

\* a service whose handler has already seen ProcessedLimit other events
InitLongRunning ==
  InitWallet(ProcessedLimit) /\ InitVerification /\ InitComponents

Next ==
  \/ \E records \in RecordBatches : poll(records) /\ UNCHANGED <<vvars, pvars>>
  \/ \E t \in Tasks : handle_user_verified(t) /\ UNCHANGED <<vvars, pvars>>
  \/ \E t \in Tasks : create_wallet_lookup(t) /\ UNCHANGED <<vvars, pvars>>
  \/ \E t \in Tasks : get_next_index_acquire(t) /\ UNCHANGED <<vvars, pvars>>
  \/ \E t \in Tasks, db_ok \in BOOLEAN : get_next_index_seed(t, db_ok) /\ UNCHANGED <<vvars, pvars>>
  \/ \E t \in Tasks, ok \in BOOLEAN : generate_wallet(t, ok) /\ UNCHANGED <<vvars, pvars>>
  \/ \E t \in Tasks, db_ok \in BOOLEAN : repository_create(t, db_ok) /\ UNCHANGED <<vvars, pvars>>
  \/ \E t \in Tasks, ok \in BOOLEAN : publish_wallet_created(t, ok) /\ UNCHANGED <<vvars, pvars>>
  \/ gather /\ UNCHANGED <<vvars, pvars>>
  \/ \E ok \in BOOLEAN : commit_offsets(ok) /\ UNCHANGED <<vvars, pvars>>
  \/ \E d \in {cache_ttl_seconds, cache_ttl_seconds + 1} : tick(d) /\ UNCHANGED <<vvars, pvars>>

Shutdown ==
  \/ stop /\ UNCHANGED <<vvars, pvars>>
  \/ loop_exit /\ UNCHANGED <<vvars, pvars>>

Spec == Init /\ [][Next]_vars

SpecLongRunning == InitLongRunning /\ [][Next]_vars

\* the same service with a shutdown request arriving at any moment
SpecShutdown == Init /\ [][Next \/ Shutdown]_vars

\* the verification service
SpecVerification == Init /\ [][NextVerification]_vars

\* the verification service with a single shared VerificationService
SpecSharedService ==
  /\ InitWallet(0) /\ InitSharedService /\ InitComponents
  /\ [][NextSharedService]_vars
  /\ FairnessSharedService

\* a CacheService under arbitrary set, get and delete calls
SpecCache == Init /\ [][NextCache]_vars

\* a verification service under each limit from 1 to MaxLimitMb
InitDocumentSize ==
  /\ InitWallet(0) /\ InitVerification /\ InitCache /\ InitGenerators
  /\ InitDocumentCheck(1..MaxLimitMb) /\ InitReads
  /\ InitPublisher({"wallet"})

SpecDocumentSize == InitDocumentSize /\ [][NextDocumentSize]_vars

SpecGenerator == Init /\ [][NextGenerator]_vars

\* Bitcoin addresses on which the length and alphabet test is tried both ways
Rejectable ==
  {address_from(to_seed(mnemonic, "u1"), get_derivation_path("bitcoin", index)) :
     mnemonic \in Mnemonics, index \in GeneratorIndexes}

\* the generators under every verdict of validate_address on those addresses
InitValidation ==
  /\ InitWallet(0) /\ InitVerification /\ InitCache
  /\ InitDocumentCheck({max_document_size_mb}) /\ InitReads
  /\ InitPublisher({"wallet"}) /\ InitGeneratorsOn(SUBSET Rejectable)

SpecValidation == InitValidation /\ [][NextGenerator]_vars

\* get_wallet callers on a service whose table holds some stored wallets
InitGetWallet ==
  /\ InitWalletTable(0, SUBSET StoredWallets)
  /\ InitVerification /\ InitComponents

SpecGetWallet == InitGetWallet /\ [][NextGetWallet]_vars

\* the publisher of either service under concurrent publish calls
InitPublishers ==
  /\ InitWallet(0) /\ InitVerification /\ InitCache
  /\ InitDocumentCheck({max_document_size_mb}) /\ InitGenerators /\ InitReads
  /\ InitPublisher(PublisherServices)

SpecPublisher == InitPublishers /\ [][NextPublisher]_vars


\* ---------------------------------------------------------- properties
rows_of(user_id, network) ==
  {w \in wallets : w.user_id = user_id /\ w.network = network}

published_for(user_id, network) ==
  {e \in published : e.user_id = user_id /\ e.network = network}

dispatched == {t \in Tasks : task[t].pc /= "idle"}

same_event(t1, t2) ==
  /\ task[t1].user_id = task[t2].user_id
  /\ task[t1].network = task[t2].network
  /\ task[t1].timestamp = task[t2].timestamp

same_pair(t1, t2) ==
  /\ task[t1].user_id = task[t2].user_id
  /\ Lower(task[t1].network) = Lower(task[t2].network)

returned_wallet(t) ==
  task[t].pc = "done" /\ task[t].result \in {"created", "existing", "cached"}

\* C1: when one user.verified event (same user_id, network, timestamp) has
\* been delivered N >= 1 times, is the only event of its (user_id, network),
\* and every delivery has been handled without error, the wallets table holds
\* exactly one row for the pair and at most one wallet.created was published.
C1_HandlerIdempotent ==
  \A t \in dispatched :
    (/\ \A t2 \in dispatched : same_pair(t, t2) => same_event(t, t2)
     /\ \A t2 \in dispatched :
          same_event(t, t2) => task[t2].pc = "done" /\ task[t2].result /= "error")
    => /\ Cardinality(rows_of(task[t].user_id, Lower(task[t].network))) = 1
       /\ Cardinality(published_for(task[t].user_id, Lower(task[t].network))) <= 1

\* C2: no two rows of the wallets table have the same (user_id, network).
C2_UniqueUserNetwork ==
  \A w1 \in wallets, w2 \in wallets :
    (w1.user_id = w2.user_id /\ w1.network = w2.network) => w1 = w2

\* C3: two create_wallet calls for the same (user_id, network) that were both
\* entered before a wallet of the pair existed and both returned a wallet
\* leave exactly one row, return the same address and derivation index, and
\* schedule at most one wallet.created publish.
C3_ConcurrentCreate ==
  \A t1 \in dispatched, t2 \in dispatched :
    (/\ t1 /= t2
     /\ task[t1].user_id = task[t2].user_id
     /\ task[t1].network = task[t2].network
     /\ task[t1].started_without_wallet /\ task[t2].started_without_wallet
     /\ returned_wallet(t1) /\ returned_wallet(t2))
    => /\ Cardinality(rows_of(task[t1].user_id, Lower(task[t1].network))) = 1
       /\ task[t1].wallet[1].wallet_address = task[t2].wallet[1].wallet_address
       /\ task[t1].wallet[1].derivation_index = task[t2].wallet[1].derivation_index
       /\ ~(pub[t1].state /= "none" /\ pub[t2].state /= "none")

\* C4: no two persisted wallets of the same network have the same
\* derivation_index.
C4_UniqueIndexPerNetwork ==
  \A w1 \in wallets, w2 \in wallets :
    (w1.network = w2.network /\ w1.derivation_index = w2.derivation_index)
    => w1 = w2

\* C5: for each network, every get_next_index call returns an integer
\* strictly greater than the one returned by every earlier call.
C5_IndexStrictlyIncreasing ==
  \A n \in RawNetworks :
    \A i \in DOMAIN allocated[n], j \in DOMAIN allocated[n] :
      i < j => allocated[n][i] < allocated[n][j]

\* C6: for every gathered batch, consumer.commit() is called if and only if
\* no per-record task of the batch failed.
C6_CommitIffNoFailure ==
  \A i \in DOMAIN batches :
    (batches[i].commit_calls > 0)
      <=> (\A t \in batches[i].tasks : task[t].result /= "error")

\* C6 witness: one batch failed and was not committed, a later one succeeded
\* and its offsets were committed.
C6_Witness ==
  /\ Len(batches) = 2
  /\ \E t \in batches[1].tasks : task[t].result = "error"
  /\ batches[1].commit_calls = 0
  /\ batches[2].commit_calls > 0
  /\ committed = position

\* C7: after a batch in which a record failed, every record of that batch is
\* dispatched again before any later record is dispatched.
C7_FailedBatchRetried ==
  \A i \in DOMAIN batches :
    (\E t \in batches[i].tasks : task[t].result = "error")
    => \A t \in dispatched :
         (\A b \in batches[i].tasks : t > b /\ task[t].offset > task[b].offset)
         => \A b \in batches[i].tasks :
              \E r \in dispatched :
                /\ \A b2 \in batches[i].tasks : r > b2
                /\ r < t
                /\ task[r].offset = task[b].offset

\* a verify_user call that returned a verification
returned_verification(c) ==
  call[c].pc = "done" /\ call[c].result \in {"ok", "existing"}

has_verified_at(v) == v.verified_at /= -1 /\ v.verified_at >= v.created_at

\* C8: every VERIFIED verification, both the object a completed verify_user
\* returned and the row it left in the verifications table, has verified_at
\* set and verified_at >= created_at
C8_VerifiedHasVerifiedAt ==
  /\ \A c \in Calls :
       returned_verification(c) /\ call[c].verification[1].status = "verified"
         => has_verified_at(call[c].verification[1])
  /\ \A r \in verifications :
       r.committed /\ r.status = "verified" => has_verified_at(r)

\* C9: a verify_user call whose lookup finds a VERIFIED row for its
\* (user_id, network) returns that row; it inserts nothing, updates no status
\* and schedules no user.verified publish
C9_ExistingVerifiedReturned ==
  \A c \in Calls :
    call[c].pc = "done" /\ call[c].saw_verified
      => /\ call[c].result = "existing"
         /\ call[c].ops = {"lookup"}
         /\ vpub[c].state = "none"

\* C10: a verify_user call with a document over the size limit, or with an
\* unsupported network, fails without any repository operation (lookup,
\* insert, status update) and without a publish
C10_InvalidInputBeforeStorage ==
  \A c \in Calls :
    /\ call[c].pc = "done"
    /\ \/ call[c].size > max_document_size_mb * 1024 * 1024
       \/ call[c].network \notin NetworkTypeValues
    => /\ call[c].result = "error"
       /\ call[c].ops = {}
       /\ vpub[c].state = "none"

\* calls that ended by raising a storage error, no publish task created
storage_error_calls ==
  {c \in Calls : /\ call[c].pc = "done"
                 /\ call[c].result = "error"
                 /\ call[c].exc = "StorageError"
                 /\ vpub[c].state = "none"}

\* C11: every storage error raised by the insert or by the status update of
\* verify_user ends one call with that error, and no user.verified publish
\* is scheduled for that call
C11_StorageErrorPropagates ==
  /\ Cardinality(storage_error_calls) = storage_faults
  /\ \A c \in Calls : call[c].pc = "done" /\ call[c].result = "error"
                          => vpub[c].state = "none"

\* C11 witness: the status update of a call failed after verify()
C11_Witness ==
  \E c \in Calls : /\ c \in storage_error_calls
                    /\ "update" \in call[c].ops
                    /\ call[c].verification[1].status = "verified"

\* calls inside the block guarded by the semaphore
holders == {c \in Calls : call[c].holding}

\* C12: at any moment at most max_concurrent_verifications (MaxPermits in
\* the model) verify_user calls hold the semaphore, and a call that has
\* exited, by return or by any error, holds no permit
C12_SemaphoreBound ==
  /\ Cardinality(holders) <= MaxPermits
  /\ \A c \in Calls : call[c].pc = "done" => ~call[c].holding

\* on one shared VerificationService the bound holds and every exit releases
SharedServiceBound == C12_SemaphoreBound

\* on one shared VerificationService every queued caller proceeds and completes
SharedServiceQueuedComplete ==
  \A c \in Calls : (call[c].pc = "acquire") ~> (call[c].pc = "done")

\* a caller queued on the shared semaphore and later completed
SharedServiceQueuedWitness ==
  \E c \in Calls : call[c].queued /\ call[c].pc = "done"

\* the wallet:{user}:{network} entry written by task t is in the store
wallet_cached(t) ==
  /\ prefixed(wallet_cache_key(task[t].user_id, task[t].network)) \in DOMAIN store
  /\ store[prefixed(wallet_cache_key(task[t].user_id, task[t].network))][2]
       = task[t].wallet[1]

\* C13: when the wallet.created publish of a create_wallet call exists, the
\* call has already returned its persisted wallet; the publish is attempted
\* at most three times, sleeping 1 s after the first failure and 2 s after
\* the second; a third failure is swallowed, and no publish step changes the
\* wallets table or the cache
C13_PublishDetached ==
  /\ [](\A t \in Tasks :
          pub[t].state /= "none"
            => /\ task[t].pc = "done" /\ task[t].result = "created"
               /\ task[t].wallet[1] \in wallets
               /\ pub[t].attempt + 1 <= 3
               /\ pub[t].slept = SubSeq(<<1, 2>>, 1, pub[t].attempt)
               /\ pub[t].state = "dropped" => pub[t].slept = <<1, 2>>)
  /\ [][(\E t \in Tasks : pub[t].state = "pending" /\ pub'[t] /= pub[t])
          => wallets' = wallets /\ store' = store /\ task' = task]_vars

\* C13 witness: all three publish attempts of a created wallet failed; the
\* row and the cache entry are there
C13_Witness ==
  \E t \in Tasks : /\ pub[t].state = "dropped"
                    /\ task[t].result = "created"
                    /\ task[t].wallet[1] \in wallets
                    /\ wallet_cached(t)

\* a step in which create_wallet of task t fails between the index
\* allocation and the insert
create_wallet_fails(t) ==
  /\ task[t].pc \in {"seed_index", "generate", "insert"}
  /\ task'[t].pc = "done"
  /\ task'[t].result = "error"

\* C14: a failure of the index allocation, the address generation, the
\* Wallet construction or the insert makes create_wallet raise
\* WalletGenerationException; that step writes no cache entry, creates no
\* publish task, inserts no row and leaves the allocator's next value alone
C14_FailureLeavesNoTrace ==
  /\ [][\A t \in Tasks :
          create_wallet_fails(t)
            => /\ task'[t].exc = "WalletGenerationException"
               /\ store' = store
               /\ pub' = pub
               /\ wallets' = wallets]_vars
  /\ [][faults' /= faults => \E t \in Tasks : create_wallet_fails(t)]_vars

\* C14 witness: an insert failed; the allocator's next value is still past
\* the index the call took, and the pair has no cache entry and no publish
C14_Witness ==
  \E t \in Tasks :
    /\ task[t].result = "error"
    /\ task[t].exc = "WalletGenerationException"
    /\ task[t].wallet /= <<>>
    /\ cache_get(store, index_cache_key(task[t].network), now)
         = <<task[t].derivation_index + 1>>
    /\ prefixed(wallet_cache_key(task[t].user_id, task[t].network))
         \notin DOMAIN store
    /\ pub[t].state = "none"

duplicate_address_insert(t) ==
  /\ task[t].pc = "insert"
  /\ task'[t].pc = "done"
  /\ \E w \in wallets :
       w.wallet_address = task[t].wallet[1].wallet_address

\* C16: no two rows of the wallets table have the same wallet_address, and
\* an insert that would repeat a stored address fails and leaves the table
\* as it was
C16_AddressUnique ==
  /\ [](\A w1, w2 \in wallets :
          w1.wallet_address = w2.wallet_address => w1 = w2)
  /\ [][\A t \in Tasks :
          duplicate_address_insert(t)
            => wallets' = wallets /\ task'[t].result = "error"]_vars

\* C16 witness: with no injected failure, an insert was refused because its
\* address is the address of a stored row
C16_Witness ==
  /\ faults = 0
  /\ \E t \in Tasks :
       /\ task[t].result = "error"
       /\ task[t].wallet /= <<>>
       /\ \E w \in wallets :
            /\ w.id /= t
            /\ w.wallet_address = task[t].wallet[1].wallet_address

\* C17: under every positive max_document_size_mb, verify_user lets a
\* document of exactly max_document_size_mb * 1024 * 1024 bytes through to
\* the repository lookup and refuses one that is a byte longer
C17_SizeBoundary ==
  /\ dlimit >= 1
  /\ dcheck.size = dlimit * 1024 * 1024 => dcheck.pc = "lookup"
  /\ dcheck.size = dlimit * 1024 * 1024 + 1
       => dcheck.pc = "done" /\ dcheck.exc = "ValueError"

\* C17 witness: under a limit other than the default one, a document one
\* byte over the limit has been refused
C17_Witness ==
  /\ dlimit /= max_document_size_mb
  /\ dcheck.size = dlimit * 1024 * 1024 + 1
  /\ dcheck.pc = "done"

\* C18: a POST /verify that is accepted is answered 202 with status
\* "pending", the answer being produced while the verification is PENDING
C18_AcceptedAnswersPending ==
  \A c \in Calls :
    call[c].result = "ok"
      => response[c].status_code = 202 /\ response[c].status = "pending"

\* C19: a POST /verify whose decoded document is over the size limit is
\* answered with HTTP 413
C19_TooLargeAnswers413 ==
  \A c \in Calls :
    (/\ call[c].pc = "done"
     /\ call[c].network \in NetworkTypeValues
     /\ document_too_large(call[c].size, max_document_size_mb))
      => response[c].status_code = 413

\* C20: generate(mnemonic, user_id, index) is deterministic: calls with
\* equal inputs return equal addresses whatever calls came between them, the
\* path used is always base_path/index, and so is every cached path
C20_GenerateDeterministic ==
  /\ \A g1, g2 \in generated :
       (/\ g1.network = g2.network /\ g1.mnemonic = g2.mnemonic
        /\ g1.user_id = g2.user_id /\ g1.index = g2.index)
         => g1.result = g2.result
  /\ \A g \in generated :
       /\ g.path = get_derivation_path(g.network, g.index)
       /\ g.result = address_from(to_seed(g.mnemonic, g.user_id),
                                  get_derivation_path(g.network, g.index))
  /\ \A network \in GeneratorNetworks :
       \A index \in DOMAIN path_cache[network] :
         path_cache[network][index] = <<base_derivation_path(network), index>>

\* C20 witness: an input was generated with its path already cached, after
\* calls with other indexes, networks and users
C20_Witness ==
  /\ Cardinality(generated) < gcalls
  /\ \E network \in GeneratorNetworks :
       DOMAIN path_cache[network] = GeneratorIndexes
  /\ \A network \in GeneratorNetworks : DOMAIN path_cache[network] /= {}

\* task t ended with an exception raised out of handle_user_verified
handler_raised(t) == task[t].pc = "done" /\ task[t].result = "error"

\* u is another delivery of the event that t delivered
redelivery(t, u) == t /= u /\ task[u].pc /= "idle" /\ same_event(t, u)

\* C21: when create_wallet fails, the handler has removed the event key from
\* processed_events by the time it raises, and a later delivery of the same
\* event, none of whose other deliveries is kept in the set, is handled
\* again rather than skipped as a duplicate
C21_FailedEventRetried ==
  /\ [][\A t \in Tasks :
          (~handler_raised(t) /\ handler_raised(t)')
            => event_key(t) \notin processed'.keys]_vars
  /\ [][\A u \in Tasks :
          (/\ task[u].pc = "start" /\ task'[u].pc /= "start"
           /\ \E t \in Tasks : redelivery(u, t) /\ handler_raised(t)
           /\ \A t \in Tasks : redelivery(u, t)
                 => handler_raised(t) \/ task[t].pc = "start")
            => task'[u].result /= "duplicate"]_vars

\* C21 witness: the event of a failed batch was delivered again in a later
\* batch and went on into create_wallet
C21_Witness ==
  \E t, u \in Tasks :
    /\ redelivery(t, u)
    /\ handler_raised(t)
    /\ Len(batches) >= 1
    /\ t \in batches[1].tasks /\ u \notin batches[1].tasks
    /\ task[u].started_without_wallet
    /\ task[u].pc \notin {"idle", "start"}
    /\ task[u].result /= "duplicate"

\* the insert of task t was refused by the unique constraint: with no
\* injected failure, the call ended with a wallet that never got an id
insert_refused(t) ==
  /\ faults = 0
  /\ task[t].pc = "done"
  /\ task[t].wallet /= <<>>
  /\ task[t].wallet[1].id = 0

\* C22: when the repository refuses the insert because the wallet already
\* exists, handle_user_verified returns normally, the event key stays in
\* processed_events and the task does not count as a failure of its batch
C22_AlreadyExistsIsSuccess ==
  \A t \in Tasks :
    insert_refused(t)
      => /\ task[t].result /= "error"
         /\ event_key(t) \in processed.keys
         /\ \A i \in 1..Len(batches) :
              t \in batches[i].tasks => batches[i].commit_calls >= 1

\* task t leaves the dedup block of handle_user_verified in this step
leaves_dedup(t) == task[t].pc = "start" /\ task'[t].pc /= "start"

\* C23: a delivery whose key is in processed_events returns without an
\* error and without entering create_wallet, and changes neither
\* processed_events nor the wallets table, the cache or the allocator; a
\* delivery whose key is absent has put it there by the time it goes on, so
\* the test and the insertion are one step under the mutex
C23_DuplicateSkipped ==
  /\ [][\A t \in Tasks :
          (leaves_dedup(t) /\ event_key(t) \in processed.keys)
            => /\ task'[t].pc = "done" /\ task'[t].result = "duplicate"
               /\ UNCHANGED <<processed, wallets, store, allocated,
                              index_locks, pub, published>>]_vars
  /\ [][\A t \in Tasks :
          (leaves_dedup(t) /\ event_key(t) \notin processed.keys)
            => /\ task'[t].result /= "duplicate"
               /\ event_key(t) \in processed'.keys]_vars

\* C23 witness: a delivery was skipped as a duplicate while the key of its
\* event is in processed_events
C23_Witness ==
  \E t \in Tasks :
    /\ task[t].pc = "done" /\ task[t].result = "duplicate"
    /\ event_key(t) \in processed.keys

\* C24: when the key a delivery inserts makes processed_events exceed
\* ProcessedLimit, the set is cut to exactly ProcessedKeep keys, and the key
\* just inserted and the keys inserted after the discarded ones are kept
C24_TrimKeepsRecent ==
  [][\A t \in Tasks :
       (/\ leaves_dedup(t)
        /\ event_key(t) \notin processed.keys
        /\ processed_len(processed) + 1 > ProcessedLimit)
         => /\ processed_len(processed') = ProcessedKeep
            /\ event_key(t) \in processed'.keys
            /\ processed.keys \subseteq processed'.keys]_vars

\* C25: _publish_event calls publish at most three times, sleeping 1 s after
\* the first failure and 2 s after the second; it makes no further call once
\* a publish succeeded or the third failed, and the third failure is not
\* raised: the verify_user call that created the task keeps its result
C25_PublishEventRetries ==
  /\ [](\A c \in Calls :
          /\ vpub[c].attempt + 1 <= 3
          /\ vpub[c].slept = SubSeq(<<1, 2>>, 1, vpub[c].attempt)
          /\ vpub[c].state = "dropped" => vpub[c].slept = <<1, 2>>
          /\ vpub[c].state /= "none"
               => call[c].pc = "done" /\ call[c].result = "ok")
  /\ [][\A c \in Calls :
          /\ vpub[c].state \in {"published", "dropped"} => vpub'[c] = vpub[c]
          /\ (vpub[c].state = "pending" /\ vpub'[c].state = "published")
               => vpub'[c].slept = vpub[c].slept
          /\ vpub'[c] /= vpub[c] /\ vpub[c].state = "pending"
               => call' = call /\ verifications' = verifications]_vars

\* C25 witness: one publish task succeeded at its second attempt and
\* another gave up after three failures
C25_Witness ==
  /\ \E c \in Calls : vpub[c].state = "published" /\ vpub[c].slept = <<1>>
  /\ \E c \in Calls : vpub[c].state = "dropped" /\ vpub[c].attempt = 2

\* C26: the publish task of a verification exists only once its insert and
\* its update to VERIFIED have both succeeded, and a verify_user call has a
\* publish task, created once, exactly when it completed a new verification
C26_PublishAfterPersistence ==
  /\ [](\A c \in Calls :
          /\ vpub[c].state /= "none"
               => /\ {"save", "update"} \subseteq call[c].ops
                  /\ \E r \in verifications :
                       r.id = call[c].verification[1].id /\ r.status = "verified"
          /\ vpub[c].state /= "none"
               <=> call[c].pc = "done" /\ call[c].result = "ok")
  /\ [][\A c \in Calls :
          vpub[c].state /= "none"
            => /\ vpub'[c].state /= "none"
               /\ vpub'[c].state = "pending" => vpub[c].state = "pending"
               /\ vpub'[c].attempt >= vpub[c].attempt]_vars

\* C26 witness: a new verification was completed and its event published,
\* while another call failed at the status update and has no publish task
C26_Witness ==
  /\ \E c \in Calls : call[c].result = "ok" /\ vpub[c].state = "published"
  /\ \E c \in Calls : /\ call[c].exc = "StorageError"
                        /\ "update" \in call[c].ops
                        /\ vpub[c].state = "none"

\* the wallet cached for the pair of task t: <<>> or <<wallet>>
cached_wallet_of(st, t) ==
  cache_get(st, wallet_cache_key(task[t].user_id, task[t].network), now)

\* the allocator, the wallets table and the publish tasks stay as they are
no_wallet_created ==
  UNCHANGED <<wallets, allocated, index_locks, pub, published>>

\* C27: when create_wallet finds the wallet in the cache it returns the
\* cached wallet; when it finds it in the repository it returns the stored
\* wallet and the cache holds that wallet afterwards; in both cases no
\* derivation index is allocated, no row inserted and no publish scheduled
C27_ExistingWalletReturned ==
  /\ [][\A t \in Tasks :
          (/\ leaves_dedup(t)
           /\ event_key(t) \notin processed.keys
           /\ cached_wallet_of(store, t) /= <<>>)
            => /\ task'[t].pc = "done" /\ task'[t].result = "cached"
               /\ task'[t].wallet = cached_wallet_of(store, t)
               /\ store' = store
               /\ no_wallet_created]_vars
  /\ [][\A t \in Tasks :
          (/\ task[t].pc = "lookup" /\ task'[t].pc /= "lookup"
           /\ Cardinality(rows_by_user_and_network(task[t].user_id,
                                                   task[t].network)) = 1)
            => /\ task'[t].pc = "done" /\ task'[t].result = "existing"
               /\ task'[t].wallet[1] \in wallets
               /\ task'[t].wallet[1].user_id = task[t].user_id
               /\ cached_wallet_of(store', t) = task'[t].wallet
               /\ no_wallet_created]_vars

\* C27 witness: the cache entry of a stored wallet had expired, a later
\* create_wallet found the row and the cache holds the wallet again
C27_Witness ==
  \E t \in Tasks :
    /\ task[t].pc = "done" /\ task[t].result = "existing"
    /\ task[t].wallet[1] \in wallets
    /\ cached_wallet_of(store, t) = task[t].wallet

\* the wallet:{user}:{network} entry of the call of reader r, in store st
read_entry(st, r, rd) ==
  LET full_key == prefixed(wallet_cache_key(rd[r].user_id, rd[r].network)) IN
  IF full_key \in DOMAIN st THEN <<st[full_key][2]>> ELSE <<>>

\* C28: get_wallet on a cache hit returns the cached wallet without a
\* repository query and with update_last_accessed only scheduled; on a miss
\* with a stored wallet it has cached the wallet and completed
\* update_last_accessed when it returns; with no stored wallet it returns
\* null and leaves the cache as it was
C28_GetWallet ==
  /\ [][\A r \in Readers :
          (/\ reads[r].pc = "idle" /\ reads'[r].pc /= "idle"
           /\ cache_get(store, wallet_cache_key(reads'[r].user_id,
                                                reads'[r].network), now) /= <<>>)
            => /\ reads'[r].pc = "done" /\ reads'[r].exc = None
               /\ reads'[r].result = read_entry(store, r, reads')
               /\ ~reads'[r].queried
               /\ last_accessed' = last_accessed /\ store' = store
               /\ touches' = touches \cup
                    {[reader |-> r, id |-> reads'[r].result[1].id,
                      state |-> "pending"]}]_vars
  /\ [][\A r \in Readers :
          (/\ reads[r].pc /= "done" /\ reads'[r].pc = "done"
           /\ reads'[r].queried /\ reads'[r].result /= <<>>)
            => /\ reads[r].pc = "touch"
               /\ reads'[r].result[1] \in wallets
               /\ last_accessed'[reads'[r].result[1].id] = now
               /\ touches' = touches]_vars
  /\ [][\A r \in Readers :
          (reads[r].pc /= "touch" /\ reads'[r].pc = "touch")
            => /\ reads'[r].result[1] \in wallets
               /\ read_entry(store', r, reads') = reads'[r].result
               /\ UNCHANGED <<touches, last_accessed>>]_vars
  /\ [][\A r \in Readers :
          (/\ reads[r].pc = "lookup" /\ reads'[r].pc /= "lookup"
           /\ rows_by_user_and_network(reads[r].user_id, reads[r].network) = {})
            => /\ reads'[r].pc = "done" /\ reads'[r].exc = None
               /\ reads'[r].result = <<>>
               /\ UNCHANGED <<store, touches, last_accessed>>]_vars
  /\ [](\A r \in Readers :
          (reads[r].pc = "done" /\ reads[r].exc = None /\ reads[r].result = <<>>)
            => read_entry(store, r, reads) = <<>>)

\* C28 witness: one call found the wallet in the repository and returned
\* with last_accessed_at set; a later call found it in the cache and
\* returned with its update still pending; a third look-up found nothing
C28_Witness ==
  \E r1, r2 \in Readers :
    /\ reads[r1].pc = "done" /\ reads[r1].queried /\ reads[r1].result /= <<>>
    /\ last_accessed[reads[r1].result[1].id] >= 0
    /\ reads[r2].pc = "done" /\ ~reads[r2].queried /\ reads[r2].result /= <<>>
    /\ \E u \in touches : u.reader = r2 /\ u.state = "pending"

\* i is one more than the largest derivation_index stored for the network
\* name, or 0 when no row has that name
seeded_from_rows(network, i) ==
  /\ \A w \in wallets : w.network = network => w.derivation_index < i
  /\ i = 0 \/ \E w \in wallets : w.network = network /\ w.derivation_index = i - 1

\* C29: a get_next_index(network) call that finds next_index:{network}
\* cached with value c returns c, and otherwise returns the largest stored
\* derivation_index of the network plus one, or 0; in both cases the cache
\* holds the returned index plus one afterwards
C29_NextIndex ==
  [][\A network \in RawNetworks :
       allocated'[network] /= allocated[network]
         => LET i == allocated'[network][Len(allocated'[network])]
                cached_index == cache_get(store, index_cache_key(network), now)
            IN  /\ allocated'[network] = Append(allocated[network], i)
                /\ IF cached_index /= <<>>
                   THEN i = cached_index[1]
                   ELSE seeded_from_rows(network, i)
                /\ cache_get(store', index_cache_key(network), now) = <<i + 1>>]_vars

\* C29 witness: index 0 was seeded from an empty table, and after the cache
\* entry expired index 1 was seeded from the table, which holds a wallet,
\* and the cache holds 2
C29_Witness ==
  \E network \in RawNetworks :
    /\ Len(allocated[network]) = 2
    /\ allocated[network][2] = 1
    /\ now > cache_ttl_seconds
    /\ \E w \in wallets : w.network = network
    /\ cache_get(store, index_cache_key(network), now) = <<2>>
    /\ store[prefixed(index_cache_key(network))][1] = now + cache_ttl_seconds

\* C30: consumer.commit() is called at most three times for a batch, with
\* sleeps of 1 s and 2 s between the calls; the first success ends the
\* attempts and the loop goes on; the third failure ends the consume loop and
\* leaves the consumer stopped, for good
C30_CommitRetries ==
  /\ [](\A i \in 1..Len(batches) :
          /\ batches[i].commit_calls <= 3
          /\ batches[i].slept =
               IF batches[i].commit_calls = 0 THEN <<>>
               ELSE SubSeq(<<1, 2>>, 1, batches[i].commit_calls - 1))
  /\ [](cpc = "stopped" => ~running)
  /\ [][(cpc = "commit" /\ cpc' /= "commit")
          => \/ /\ cpc' = "poll" /\ committed' = position
                /\ running' = running
             \/ /\ batches[Len(batches)].commit_calls = 3
                /\ cpc' = "stopped" /\ ~running'
                /\ committed' = committed]_vars
  /\ [][cpc /= "commit"
          => \A i \in 1..Len(batches) : batches'[i] = batches[i]]_vars
  /\ [][cpc = "stopped"
          => cpc' = "stopped" /\ position' = position
             /\ committed' = committed]_vars

\* C30 witness: commit failed three times for a batch, with sleeps of 1 s
\* and 2 s, and the consumer is stopped
C30_Witness ==
  /\ cpc = "stopped" /\ ~running
  /\ batches[Len(batches)].commit_calls = 3
  /\ batches[Len(batches)].slept = <<1, 2>>
  /\ committed < position

\* a per-record handler task that has been created and has not finished
in_flight(t) == task[t].pc \notin {"idle", "done"}

\* C31: once stop() has returned, no per-record task of the consumer is still
\* running (every in-flight handler task was cancelled).
C31_StopCancelsTasks ==
  ~running => \A t \in Tasks : ~in_flight(t)


\* C32: however many publish calls arrive together, a publisher constructs at
\* most one producer and starts it at most once; every call that obtained a
\* producer obtained that one.
C32_OneProducer ==
  /\ Len(instances) <= 1
  /\ \A i \in DOMAIN instances : instances[i].starts <= 1
  /\ \A c \in Publishers :
       publisher[c].producer /= 0 => publisher[c].producer = producer

\* two calls entered while _producer was None, a later call followed, and
\* both hold the single producer
C32_Witness ==
  /\ Len(instances) = 1
  /\ kcalls = MaxPublishCalls
  /\ \E c1, c2 \in Publishers :
       /\ c1 /= c2
       /\ publisher[c1].pc = "send" /\ publisher[c1].producer = 1
       /\ publisher[c2].pc = "send" /\ publisher[c2].producer = 1

\* a publish_batch call that got its producer and came back
batch_returned(c) ==
  /\ publisher[c].pc = "done"
  /\ publisher[c].op = "publish_batch"
  /\ publisher[c].result /= "start_error"

\* C33: publish_batch issues one send per event whatever the earlier sends
\* did; it fails exactly when some send failed, logging how many, and
\* succeeds otherwise, the empty list included.
C33_BatchAllSends ==
  \A c \in Publishers :
    batch_returned(c)
    => /\ publisher[c].issued = 1..publisher[c].n
       /\ publisher[c].result = "error" <=> publisher[c].failed /= {}
       /\ publisher[c].result = "ok" <=> publisher[c].failed = {}
       /\ publisher[c].failed /= {}
            => publisher[c].logged = Cardinality(publisher[c].failed)
       /\ publisher[c].n = 0 => publisher[c].result = "ok"

\* a batch whose first send failed and whose last send was still issued and
\* succeeded, next to an empty batch that succeeded
C33_Witness ==
  \E c1, c2 \in Publishers :
    /\ batch_returned(c1) /\ publisher[c1].n = MaxEvents
    /\ publisher[c1].failed = {1} /\ publisher[c1].issued = 1..MaxEvents
    /\ publisher[c1].result = "error" /\ publisher[c1].logged = 1
    /\ batch_returned(c2) /\ publisher[c2].n = 0 /\ publisher[c2].result = "ok"

\* C40: every send goes through a producer whose start() has completed, and
\* a producer whose start() failed does not stay installed.
C40_SendAfterStart ==
  /\ \A m \in sends : m.state = "started"
  /\ producer /= 0 => instances[producer].state /= "failed"


\* the address generate_address derives for a recorded generate call
derived_address(g) == address_from(to_seed(g.mnemonic, g.user_id), g.path)

\* C34: generate returns an address only if validate_address accepts it, and
\* raises WalletGenerationException when validate_address refuses the
\* address it derived.
C34_GenerateValidates ==
  \A g \in generated :
    /\ g.exc = None
         => g.result = derived_address(g)
            /\ validate_address(g.network, g.result)
    /\ ~validate_address(g.network, derived_address(g))
         => g.exc = "WalletGenerationException" /\ g.result = <<>>

\* one generate raised on a refused address and another returned an
\* accepted address of the same generator
C34_Witness ==
  \E g1, g2 \in generated :
    /\ g1.network = "bitcoin" /\ g2.network = "bitcoin"
    /\ derived_address(g1) \in rejected
    /\ g1.exc = "WalletGenerationException"
    /\ derived_address(g2) \notin rejected
    /\ g2.exc = None /\ g2.result = derived_address(g2)


\* C35: the committed offset never passes a record whose handler raised and
\* for whose (user_id, network) no wallet exists: such a record is not
\* skipped.
C35_CommitNotPastFailure ==
  \A t \in Tasks :
    (/\ handler_raised(t)
     /\ rows_of(task[t].user_id, Lower(task[t].network)) = {})
      => committed <= task[t].offset


\* the wallet:{user}:{network} entries of the cache
wallet_entries ==
  {k \in DOMAIN store : Len(k) = 4 /\ k[2] = "wallet"}

\* C36: every wallet held in the cache under wallet:{user}:{network} is the
\* wallet of that user and network and has a row in the wallets table with
\* the same user_id, network, wallet_address and derivation_index.
C36_CacheBackedByRow ==
  \A k \in wallet_entries :
    LET cached == store[k][2] IN
    /\ cached.user_id = k[3]
    /\ cached.network = Lower(k[4])
    /\ \E w \in wallets :
         /\ w.user_id = cached.user_id
         /\ w.network = cached.network
         /\ w.wallet_address = cached.wallet_address
         /\ w.derivation_index = cached.derivation_index

\* one entry was written after an insert and another after a repository
\* lookup, and an insert has been refused
C36_Witness ==
  /\ \E t \in Tasks :
       /\ task[t].result = "created"
       /\ prefixed(wallet_cache_key(task[t].user_id, task[t].network))
            \in wallet_entries
  /\ \E t \in Tasks :
       /\ task[t].result = "error" /\ task[t].wallet /= <<>>
       /\ prefixed(wallet_cache_key(task[t].user_id, task[t].network))
            \notin wallet_entries


\* the stored rows a wallet.created event speaks of
rows_of_event(rows, e) ==
  {w \in rows : /\ w.user_id = e.user_id /\ w.network = e.network
                /\ w.wallet_address = e.wallet_address}

\* C37: every published wallet.created event carries the user_id, network
\* and wallet_address of a wallet row that was inserted before the event was
\* published.
C37_PublishedAfterInsert ==
  /\ [](\A e \in published : rows_of_event(wallets, e) /= {})
  /\ [][\A e \in published' \ published : rows_of_event(wallets, e) /= {}]_vars

\* an event was published after a failed attempt, and another create_wallet
\* failed at the insert and published nothing
C37_Witness ==
  /\ \E e \in published :
       /\ pub[e.task].attempt > 0
       /\ rows_of_event(wallets, e) /= {}
  /\ \E t \in Tasks :
       /\ task[t].result = "error" /\ task[t].wallet /= <<>>
       /\ pub[t].state = "none"


\* the next_index:{network} value a get_next_index call would read now
cached_next_index(network) == cache_get(store, index_cache_key(network), now)

\* C38: while next_index:{network} is present in the cache, every
\* get_next_index(network) call returns the index after the one returned
\* before it, so k calls return base, ..., base + k - 1, none twice and none
\* skipped, and the entry always holds the index after the last one returned.
C38_CachedIndexesConsecutive ==
  /\ [](\A network \in RawNetworks :
          prefixed(index_cache_key(network)) \in DOMAIN store
            => /\ Len(allocated[network]) > 0
               /\ store[prefixed(index_cache_key(network))][2]
                    = allocated[network][Len(allocated[network])] + 1)
  /\ [][\A network \in RawNetworks :
          (/\ allocated'[network] /= allocated[network]
           /\ cached_next_index(network) /= <<>>)
            => /\ Len(allocated[network]) > 0
               /\ allocated'[network]
                    = Append(allocated[network],
                             allocated[network][Len(allocated[network])] + 1)
               /\ cached_next_index(network)'
                    = <<allocated'[network][Len(allocated'[network])] + 1>>]_vars

\* two calls for one network returned 0 and 1, the second from a cache entry
\* that was one ttl old, and the entry holds 2
C38_Witness ==
  \E network \in RawNetworks :
    /\ allocated[network] = <<0, 1>>
    /\ cached_next_index(network) = <<2>>
    /\ now >= cache_ttl_seconds


\* C39: for every (user_id, network), the verifications table holds at most
\* one row and at most one user.verified event has been published.
C39_OneVerificationPerPair ==
  \A user_id \in Users, network \in VerificationNetworks :
    /\ Cardinality({r \in verifications :
                      r.user_id = user_id /\ r.network = network}) <= 1
    /\ Cardinality({e \in vpublished :
                      e.user_id = user_id /\ e.network = network}) <= 1


====
